---- MODULE Spec2Model ----
(***************************************************************************)
(* Order lifecycle and pricing of the multi-tenant food-ordering backend   *)
(* (api-mybot): order creation (validation, pricing, order numbering),     *)
(* the order status state machine, order notes and order rating, as        *)
(* request handlers that interleave at their awaits over a shared store.   *)
(*                                                                         *)
(* Strings are sequences of one-character strings; a JSON/JavaScript value *)
(* is a record [t, n, s] (type tag, number, characters), so that the       *)
(* dynamic typing of the handlers' arithmetic is computed, not assumed.    *)
(***************************************************************************)
EXTENDS Integers, Sequences, FiniteSets, TLC

(***************************************************************************)
(* Bounds of the model                                                     *)
(***************************************************************************)
\* the tenants of the platform
NumTenants == 2
\* the requests that can be in flight at once
MaxInFlight == 2
\* the orders created when creations interleave (SpecCreate), the orders of
\* the intake (SpecIntake) and of the stores of the statistics (SpecStats)
MaxOrders == 2
\* the orders created when their lifecycle is followed (SpecStatus, SpecAll,
\* SpecNotes, SpecNoteLog, SpecNotify, SpecAdmin)
MaxStatusOrders == 1
\* the notes an order can collect
MaxNotes == 2
\* the days that pass, the status toggles of tenants and the orders created
\* when numbering is followed over days (SpecSeq)
MaxDay == 2
MaxToggles == 2
MaxSeqOrders == 4
\* the orders a tenant has already created on a busy day, and the orders
\* created after them (SpecBusyDay)
BusyDayOrders == 999
MaxBusyOrders == 2

Tenants == 1..NumTenants
Slots == 1..MaxInFlight

(***************************************************************************)
(* Characters and strings                                                  *)
(***************************************************************************)
\* the characters the model uses, in code-unit order
Chars == <<" ", "-", "0", "1", "2", "3", "4", "5", "6", "7", "8", "9",
           "A", "B", "C", "D", "E", "F", "G", "H", "I", "J", "K", "L", "M",
           "N", "O", "P", "Q", "R", "S", "T", "U", "V", "W", "X", "Y", "Z",
           "a", "b", "c", "d", "e", "f", "g", "h", "i", "j", "k", "l", "m",
           "n", "o", "p", "q", "r", "s", "t", "u", "v", "w", "x", "y", "z">>

Digits == <<"0", "1", "2", "3", "4", "5", "6", "7", "8", "9">>

CharCode(c) == CHOOSE i \in 1..Len(Chars) : Chars[i] = c

IsDigit(c) == \E i \in 1..Len(Digits) : Digits[i] = c

DigitValue(c) == (CHOOSE i \in 1..Len(Digits) : Digits[i] = c) - 1

\* String.prototype.toLowerCase on one character
LowerChar(c) ==
  LET i == CharCode(c)
  IN  IF i \in CharCode("A")..CharCode("Z") THEN Chars[i + 26] ELSE c

toLowerCase(s) == [i \in 1..Len(s) |-> LowerChar(s[i])]

\* String.prototype.includes
includes(s, sub) ==
  \E i \in 0..(Len(s) - Len(sub)) : SubSeq(s, i + 1, i + Len(sub)) = sub

startsWith(s, pre) == Len(s) >= Len(pre) /\ SubSeq(s, 1, Len(pre)) = pre

\* comparison of two strings by code units (the store's default string order)
RECURSIVE StrLess(_, _)
StrLess(a, b) ==
  IF a = <<>> THEN b # <<>>
  ELSE IF b = <<>> THEN FALSE
  ELSE IF Head(a) = Head(b) THEN StrLess(Tail(a), Tail(b))
  ELSE CharCode(Head(a)) < CharCode(Head(b))

\* Number.prototype.toString for an integer
RECURSIVE DecStr(_)
DecStr(n) ==
  IF n < 0 THEN <<"-">> \o DecStr(0 - n)
  ELSE IF n < 10 THEN <<Digits[n + 1]>>
  ELSE DecStr(n \div 10) \o <<Digits[(n % 10) + 1]>>

\* String.prototype.padStart
RECURSIVE padStart(_, _, _)
padStart(s, width, c) ==
  IF Len(s) >= width THEN s ELSE padStart(<<c>> \o s, width, c)

\* the value of a run of decimal digits
RECURSIVE DigitsValue(_)
DigitsValue(s) ==
  IF s = <<>> THEN 0
  ELSE 10 * DigitsValue(SubSeq(s, 1, Len(s) - 1)) + DigitValue(s[Len(s)])

AllDigits(s) == s # <<>> /\ \A i \in 1..Len(s) : IsDigit(s[i])

\* a string that is the decimal notation of an integer
IsNumericStr(s) ==
  IF s # <<>> /\ Head(s) = "-" THEN AllDigits(Tail(s)) ELSE AllDigits(s)

NumericValue(s) ==
  IF Head(s) = "-" THEN 0 - DigitsValue(Tail(s)) ELSE DigitsValue(s)

\* the longest prefix of decimal digits
RECURSIVE DigitPrefix(_)
DigitPrefix(s) ==
  IF s = <<>> \/ ~IsDigit(Head(s)) THEN <<>>
  ELSE <<Head(s)>> \o DigitPrefix(Tail(s))

\* String.prototype.split on a one-character separator
RECURSIVE split(_, _)
split(s, sep) ==
  IF \A i \in 1..Len(s) : s[i] # sep THEN <<s>>
  ELSE LET k == CHOOSE i \in 1..Len(s) :
                  s[i] = sep /\ \A j \in 1..(i - 1) : s[j] # sep
       IN  <<SubSeq(s, 1, k - 1)>> \o split(SubSeq(s, k + 1, Len(s)), sep)

(***************************************************************************)
(* JavaScript values and the operators the handlers apply to them          *)
(***************************************************************************)
Undef == [t |-> "undefined", n |-> 0, s |-> <<>>]
NaN == [t |-> "nan", n |-> 0, s |-> <<>>]
Num(k) == [t |-> "number", n |-> k, s |-> <<>>]
Str(x) == [t |-> "string", n |-> 0, s |-> x]

\* ToBoolean
Truthy(v) ==
  CASE v.t = "number" -> v.n # 0
    [] v.t = "string" -> v.s # <<>>
    [] OTHER -> FALSE

\* ToNumber
ToNumber(v) ==
  CASE v.t = "number" -> v
    [] v.t = "string" ->
         IF v.s = <<>> THEN Num(0)
         ELSE IF IsNumericStr(v.s) THEN Num(NumericValue(v.s)) ELSE NaN
    [] OTHER -> NaN

\* ToString
ToStr(v) ==
  CASE v.t = "string" -> v.s
    [] v.t = "number" -> DecStr(v.n)
    [] v.t = "nan" -> <<"N", "a", "N">>
    [] OTHER -> <<"u", "n", "d", "e", "f", "i", "n", "e", "d">>

\* a || b
JsOr(a, b) == IF Truthy(a) THEN a ELSE b

\* a + b: concatenation as soon as one operand is a string
JsAdd(a, b) ==
  IF a.t = "string" \/ b.t = "string" THEN Str(ToStr(a) \o ToStr(b))
  ELSE IF ToNumber(a).t = "nan" \/ ToNumber(b).t = "nan" THEN NaN
  ELSE Num(ToNumber(a).n + ToNumber(b).n)

\* a * b
JsMul(a, b) ==
  IF ToNumber(a).t = "nan" \/ ToNumber(b).t = "nan" THEN NaN
  ELSE Num(ToNumber(a).n * ToNumber(b).n)

\* a < b and a > b on a value and a number: false when a is not a number
JsLess(a, b) ==
  ToNumber(a).t = "number" /\ ToNumber(b).t = "number"
    /\ ToNumber(a).n < ToNumber(b).n

JsGreater(a, b) == JsLess(b, a)

\* parseInt: the leading decimal digits, NaN when there are none
parseInt(s) ==
  IF DigitPrefix(s) = <<>> THEN NaN ELSE Num(DigitsValue(DigitPrefix(s)))

(***************************************************************************)
(* Validation schemas (Joi) and schema casts (Mongoose)                    *)
(***************************************************************************)
\* Joi.number(): a number, or (conversion is on by default) a numeric string
JoiNumber(v) ==
  v.t = "number" \/ (v.t = "string" /\ IsNumericStr(v.s))

\* Joi.string().required(): a non-empty string
JoiStringRequired(v) == v.t = "string" /\ v.s # <<>>

PaymentMethods == {"pix", "credit-card", "cash"}

JoiOrderItem(item) ==
  /\ JoiNumber(item.quantity) /\ ToNumber(item.quantity).n >= 1
  /\ JoiNumber(item.unitPrice)
  /\ \A j \in 1..Len(item.options) :
       item.options[j].name # <<>> /\ JoiNumber(item.options[j].price)

\* the key that the first message of validators.order names ("" when the
\* body passes): the keys are validated in the order of the schema, unknown
\* keys last, and the validation stops at the first error
JoiOrderError(body) ==
  IF ~body.customer.present THEN "customer"
  ELSE IF ~JoiStringRequired(body.customer.name) THEN "customer.name"
  ELSE IF ~JoiStringRequired(body.customer.phone) THEN "customer.phone"
  ELSE IF ~JoiStringRequired(body.customer.address) THEN "customer.address"
  ELSE IF \/ Len(body.items) < 1
          \/ \E i \in 1..Len(body.items) : ~JoiOrderItem(body.items[i]) THEN "items"
  ELSE IF body.paymentMethod \notin PaymentMethods THEN "paymentMethod"
  ELSE IF ~(IF body.paymentMethod = "cash"
              THEN body.changeFor.t = "undefined" \/ JoiNumber(body.changeFor)
              ELSE body.changeFor.t = "undefined") THEN "changeFor"
  ELSE IF ~(body.deliveryFee.t = "undefined" \/ JoiNumber(body.deliveryFee))
       THEN "deliveryFee"
  ELSE IF body.notes.t \notin {"undefined", "string"} THEN "notes"
  ELSE IF body.subtotal.t # "undefined" THEN "subtotal"
  ELSE IF body.total.t # "undefined" THEN "total"
  ELSE ""

\* a faulty JoiOrder: changeFor is an optional number for every payment method
JoiOrderChangeForAny(body) ==
  /\ body.customer.present
  /\ JoiStringRequired(body.customer.name)
  /\ JoiStringRequired(body.customer.phone)
  /\ JoiStringRequired(body.customer.address)
  /\ Len(body.items) >= 1
  /\ \A i \in 1..Len(body.items) : JoiOrderItem(body.items[i])
  /\ body.paymentMethod \in PaymentMethods
  /\ body.changeFor.t = "undefined" \/ JoiNumber(body.changeFor)
  /\ body.deliveryFee.t = "undefined" \/ JoiNumber(body.deliveryFee)
  /\ body.notes.t \in {"undefined", "string"}
  /\ body.subtotal.t = "undefined"
  /\ body.total.t = "undefined"

\* validators.order, applied by validate() to req.body; the converted value
\* is discarded, so the handler goes on with the body as it was sent
JoiOrder(body) ==
  /\ body.customer.present
  /\ JoiStringRequired(body.customer.name)
  /\ JoiStringRequired(body.customer.phone)
  /\ JoiStringRequired(body.customer.address)
  /\ Len(body.items) >= 1
  /\ \A i \in 1..Len(body.items) : JoiOrderItem(body.items[i])
  /\ body.paymentMethod \in PaymentMethods
  /\ IF body.paymentMethod = "cash"
       THEN body.changeFor.t = "undefined" \/ JoiNumber(body.changeFor)
       ELSE body.changeFor.t = "undefined"
  /\ body.deliveryFee.t = "undefined" \/ JoiNumber(body.deliveryFee)
  /\ body.notes.t \in {"undefined", "string"}
  /\ body.subtotal.t = "undefined"
  /\ body.total.t = "undefined"

Statuses ==
  {"pending", "confirmed", "preparing", "delivering", "completed", "cancelled"}

\* validators.orderStatus
JoiOrderStatus(status) == status \in Statuses

\* Mongoose's cast of a value to a Number path: a cast error for a value
\* that is no number (reported by save() as a validation error)
CastFails(v) == v.t = "nan" \/ (v.t = "string" /\ v.s # <<>> /\ ~IsNumericStr(v.s))

CastNumber(v) ==
  CASE v.t = "undefined" -> Undef
    [] v.t = "string" /\ v.s = <<>> -> Undef
    [] OTHER -> ToNumber(v)

(***************************************************************************)
(* Catalog (read-only collaborator of order creation)                      *)
(***************************************************************************)
Product(t, avail, type, sizes) ==
  [tenantId |-> t, available |-> avail, productType |-> type,
   sizesPrices |-> sizes, price |-> 0]

TamanhoG == <<"T", "a", "m", "a", "n", "h", "o", " ", "G">>
TamanhoP == <<"t", "a", "m", "a", "n", "h", "o", " ", "P">>
Borda == <<"B", "o", "r", "d", "a">>

InitCatalog ==
  << Product(1, TRUE, "standard", <<>>),
     Product(1, TRUE, "pizza", <<[sizeName |-> TamanhoG, price |-> 40]>>),
     Product(1, FALSE, "standard", <<>>),
     Product(2, TRUE, "standard", <<>>) >>

(***************************************************************************)
(* Request bodies of POST /api/orders/:tenantId                            *)
(***************************************************************************)
Customer ==
  [present |-> TRUE, name |-> Str(<<"A", "n", "a">>),
   phone |-> Str(<<"5", "5", "1">>), address |-> Str(<<"R", "u", "a">>)]

Option(name, price) == [name |-> name, price |-> price]

\* a productId that is no ObjectId (such as "abc"); 0 stands for an item
\* without productId, a positive number for a well-formed ObjectId
MalformedId == -1

Item(pid, q, u, opts) ==
  [productId |-> pid, quantity |-> q, unitPrice |-> u, options |-> opts]

Body(items, pm, change, fee) ==
  [customer |-> Customer, items |-> items, paymentMethod |-> pm,
   changeFor |-> change, deliveryFee |-> fee, notes |-> Undef,
   subtotal |-> Undef, total |-> Undef]

ScenarioA == <<Item(0, Num(2), Num(30), <<Option(Borda, Num(5))>>)>>

Bodies ==
  << \* 1: Scenario A of the specification
     Body(ScenarioA, "pix", Undef, Num(5)),
     \* 2: the same order with the delivery fee sent as a JSON string
     Body(ScenarioA, "pix", Undef, Str(<<"5">>)),
     \* 3: no delivery fee, two items, the second without options
     Body(ScenarioA \o <<Item(1, Num(1), Num(12), <<>>)>>, "cash", Undef, Undef),
     \* 4: two options on one item, their prices sent as JSON strings
     Body(<<Item(0, Num(1), Num(20),
                 <<Option(Borda, Str(<<"5">>)), Option(TamanhoG, Str(<<"3">>))>>)>>,
          "credit-card", Undef, Num(0)),
     \* 5: a client-supplied total
     [Body(ScenarioA, "pix", Undef, Num(5)) EXCEPT !.total = Num(1)],
     \* 6: change for a payment that is not cash
     Body(ScenarioA, "pix", Num(10), Num(5)),
     \* 7: cash with change, quantity and unit price sent as JSON strings
     Body(<<Item(0, Str(<<"2">>), Str(<<"3", "0">>), <<>>)>>, "cash", Num(100), Num(5)),
     \* 8: no items
     Body(<<>>, "pix", Undef, Num(5)),
     \* 9: a pizza of tenant 1 with a size it is configured with
     Body(<<Item(2, Num(1), Num(40), <<Option(TamanhoG, Num(0))>>)>>, "pix", Undef, Undef),
     \* 10: a pizza of tenant 1 with a size it is not configured with
     Body(<<Item(2, Num(1), Num(40), <<Option(TamanhoP, Num(0))>>)>>, "pix", Undef, Undef),
     \* 11: a product that is not available
     Body(<<Item(3, Num(1), Num(10), <<>>)>>, "pix", Undef, Undef),
     \* 12: a well-formed productId that no catalog has
     Body(<<Item(9, Num(1), Num(10), <<>>)>>, "pix", Undef, Undef),
     \* 13: a productId that is no ObjectId
     Body(<<Item(MalformedId, Num(1), Num(10), <<>>)>>, "pix", Undef, Undef),
     \* 14: change for a payment by credit card
     Body(ScenarioA, "credit-card", Num(50), Undef),
     \* 15: no customer phone
     [Body(ScenarioA, "pix", Undef, Undef) EXCEPT !.customer.phone = Undef],
     \* 16: a payment method that does not exist
     Body(ScenarioA, "boleto", Undef, Undef),
     \* 17: a negative unit price, option price and delivery fee
     Body(<<Item(0, Num(1), Num(0 - 10), <<Option(Borda, Num(0 - 5))>>)>>,
          "pix", Undef, Num(0 - 5)),
     \* 18: a pizza of tenant 1 with two sizes, the second not configured
     Body(<<Item(2, Num(1), Num(40),
                 <<Option(TamanhoG, Num(0)), Option(TamanhoP, Num(0))>>)>>,
          "pix", Undef, Undef) >>

(***************************************************************************)
(* State                                                                   *)
(***************************************************************************)
VARIABLES
  today,     \* the current calendar day, as a day number
  tenants,   \* Tenant collection: tenant id -> [active]
  users,     \* User collection: the admin user of each tenant -> [active]
  catalog,   \* Catalog collection: product id -> product
  cache,     \* cacheManager: per tenant the entry of its product list
  orders,    \* Order collection in insertion order; the index is the _id
  req,       \* the requests in flight: slot -> handler position and locals
  audit      \* history: toggles per tenant, and per order the owner's toggles at its save

vars == <<today, tenants, users, catalog, cache, orders, req, audit>>

\* no key is cached
NoCache == [t \in Tenants |-> [cached |-> FALSE, products |-> <<>>]]

NoRes == [code |-> 0, error |-> <<>>]

Res(code, error) == [code |-> code, error |-> error]

NoStats ==
  [totalOrders |-> 0, byStatus |-> <<>>, averageTicket |-> [num |-> 0, den |-> 1],
   totalSales |-> 0]

NoReport ==
  [stats |-> [totalOrders |-> 0, totalSales |-> 0,
              averageTicket |-> [num |-> 0, den |-> 1],
              minTicket |-> 0, maxTicket |-> 0],
   salesByDay |-> <<>>, salesByPaymentMethod |-> {}, salesByCategory |-> <<>>]

EmptyReq ==
  [op |-> "idle", pc |-> "idle", tenantId |-> 0, body |-> 0, id |-> 0,
   orderNumber |-> <<>>, status |-> "", rating |-> Undef, comment |-> Undef,
   docId |-> 0, docStatus |-> "", notes |-> <<>>,
   subtotal |-> Undef, total |-> Undef,
   res |-> NoRes, saved |-> FALSE, notifyCalls |-> 0, notified |-> "",
   returned |-> <<>>, count |-> 0,
   startDate |-> 0, endDate |-> 0, stats |-> NoStats, report |-> NoReport,
   available |-> FALSE]

(***************************************************************************)
(* Order numbers: OrderSchema.statics.generateOrderNumber                  *)
(***************************************************************************)
\* today.toISOString().split('T')[0].replace(/-/g, ''): eight digits
DateStr(day) == DecStr(20261100 + day)

OrderPrefix(day) == <<"O", "R", "D", "-">> \o DateStr(day) \o <<"-">>

\* the later of two orders in descending orderNumber order (0: no order)
Greater(ords, a, b) ==
  IF a = 0 THEN b
  ELSE IF b = 0 THEN a
  ELSE IF StrLess(ords[a].orderNumber, ords[b].orderNumber) THEN b ELSE a

\* findOne(filter, projection, { sort: { orderNumber: -1 } }) over the orders
\* lo..hi: a matching order with the greatest orderNumber in string order, 0
\* when none matches
RECURSIVE LastOrder(_, _, _, _, _)
LastOrder(ords, tenantId, prefix, lo, hi) ==
  IF lo > hi THEN 0
  ELSE IF lo = hi
       THEN IF /\ ords[lo].tenantId = tenantId
               /\ startsWith(ords[lo].orderNumber, prefix)
            THEN lo ELSE 0
  ELSE Greater(ords,
               LastOrder(ords, tenantId, prefix, lo, (lo + hi) \div 2),
               LastOrder(ords, tenantId, prefix, (lo + hi) \div 2 + 1, hi))

NextSequence(ords, lastOrder) ==
  IF lastOrder = 0 THEN Num(1)
  ELSE JsAdd(parseInt(split(ords[lastOrder].orderNumber, "-")[3]), Num(1))

\* a faulty generateOrderNumber: the query has no tenantId filter
generateOrderNumberOfAnyTenant(ords, tenantId, day) ==
  LET all == [i \in DOMAIN ords |-> [ords[i] EXCEPT !.tenantId = tenantId]]
      lastOrder == LastOrder(all, tenantId, OrderPrefix(day), 1, Len(all))
      sequence == NextSequence(all, lastOrder)
  IN  OrderPrefix(day) \o padStart(ToStr(sequence), 3, "0")

generateOrderNumber(ords, tenantId, day) ==
  LET lastOrder == LastOrder(ords, tenantId, OrderPrefix(day), 1, Len(ords))
      sequence == NextSequence(ords, lastOrder)
  IN  OrderPrefix(day) \o padStart(ToStr(sequence), 3, "0")

(***************************************************************************)
(* Order creation: orderService.createOrder                                *)
(***************************************************************************)
\* a faulty FindProduct: the lookup is not scoped to the tenant
FindProductOfAnyTenant(cat, tenantId, productId) ==
  IF productId \in DOMAIN cat /\ cat[productId].available
  THEN productId ELSE 0

\* Catalog.findOne({ _id: item.productId, tenantId, available: true }): the
\* product, 0 when none matches (a productId that is no ObjectId makes the
\* query throw a CastError: see ItemError)
FindProduct(cat, tenantId, productId) ==
  IF /\ productId \in DOMAIN cat
     /\ cat[productId].tenantId = tenantId
     /\ cat[productId].available
  THEN productId ELSE 0

IsSizeName(name) ==
  \/ includes(toLowerCase(name), <<"t", "a", "m", "a", "n", "h", "o">>)
  \/ includes(toLowerCase(name), <<"t", "a", "m">>)
  \/ includes(toLowerCase(name), <<"s", "i", "z", "e">>)

\* item.options.find(...): the first option with a size-like name, 0 if none
SizeOption(item) ==
  IF \E j \in 1..Len(item.options) : IsSizeName(item.options[j].name)
  THEN CHOOSE j \in 1..Len(item.options) :
         /\ IsSizeName(item.options[j].name)
         /\ \A k \in 1..(j - 1) : ~IsSizeName(item.options[k].name)
  ELSE 0

SizeExists(product, name) ==
  \E k \in 1..Len(product.sizesPrices) :
    toLowerCase(product.sizesPrices[k].sizeName) = toLowerCase(name)

\* the validation of one item: "" when it passes, else the failing details
\* field, or "CastError" when the catalog query throws
ItemError(cat, tenantId, item) ==
  IF item.productId = 0 THEN ""
  ELSE IF item.productId = MalformedId THEN "CastError"
  ELSE IF FindProduct(cat, tenantId, item.productId) = 0 THEN "items"
  ELSE IF /\ cat[item.productId].productType = "pizza"
          /\ Len(item.options) > 0
          /\ SizeOption(item) # 0
          /\ ~SizeExists(cat[item.productId], item.options[SizeOption(item)].name)
       THEN "items.options"
  ELSE ""

\* the validation of createOrder: the details of the first error thrown
createOrderError(cat, tenantId, body) ==
  IF Len(body.items) = 0 THEN "items"
  ELSE IF ~body.customer.present \/ ~Truthy(body.customer.name)
            \/ ~Truthy(body.customer.phone) THEN "customer"
  ELSE IF \E i \in 1..Len(body.items) : ItemError(cat, tenantId, body.items[i]) # ""
       THEN ItemError(cat, tenantId,
              body.items[CHOOSE i \in 1..Len(body.items) :
                 /\ ItemError(cat, tenantId, body.items[i]) # ""
                 /\ \A k \in 1..(i - 1) : ItemError(cat, tenantId, body.items[k]) = ""])
  ELSE ""

\* item.options.reduce((sum, opt) => sum + (opt.price || 0), 0)
RECURSIVE OptionsSum(_, _)
OptionsSum(options, n) ==
  IF n = 0 THEN Num(0)
  ELSE JsAdd(OptionsSum(options, n - 1), JsOr(options[n].price, Num(0)))

ItemTotal(item) == JsMul(item.quantity, item.unitPrice)

OptionsTotal(item) ==
  IF Len(item.options) > 0
  THEN JsMul(OptionsSum(item.options, Len(item.options)), item.quantity)
  ELSE Num(0)

\* subtotal += itemTotal + optionsTotal, over the items in order
RECURSIVE Subtotal(_, _)
Subtotal(items, n) ==
  IF n = 0 THEN Num(0)
  ELSE JsAdd(Subtotal(items, n - 1), JsAdd(ItemTotal(items[n]), OptionsTotal(items[n])))

DeliveryFee(body) == JsOr(body.deliveryFee, Num(0))

Total(body) == JsAdd(Subtotal(body.items, Len(body.items)), DeliveryFee(body))

\* a faulty StoredItem: the unit price is read from the catalog
StoredItemAtCatalogPrice(item) ==
  [productId |-> item.productId,
   quantity |-> CastNumber(item.quantity).n,
   unitPrice |-> IF item.productId \in DOMAIN catalog
                 THEN catalog[item.productId].price
                 ELSE CastNumber(item.unitPrice).n,
   options |-> [j \in 1..Len(item.options) |->
                  [name |-> item.options[j].name,
                   price |-> CastNumber(item.options[j].price).n]]]

\* the items as the OrderItemSchema stores them (numbers cast)
StoredItem(item) ==
  [productId |-> item.productId,
   quantity |-> CastNumber(item.quantity).n,
   unitPrice |-> CastNumber(item.unitPrice).n,
   options |-> [j \in 1..Len(item.options) |->
                  [name |-> item.options[j].name,
                   price |-> CastNumber(item.options[j].price).n]]]

\* a faulty NewOrder: a missing changeFor is stored as 0
NewOrderWithDefaultChange(tenantId, orderNumber, body, subtotal, total, day) ==
  [tenantId |-> tenantId,
   orderNumber |-> orderNumber,
   status |-> "pending",
   customer |-> body.customer,
   items |-> [i \in 1..Len(body.items) |-> StoredItem(body.items[i])],
   paymentMethod |-> body.paymentMethod,
   changeFor |-> CastNumber(JsOr(body.changeFor, Num(0))),
   deliveryFee |-> CastNumber(DeliveryFee(body)).n,
   subtotal |-> CastNumber(subtotal).n,
   total |-> CastNumber(total).n,
   rating |-> Undef,
   notes |-> IF Truthy(body.notes) THEN <<body.notes.s>> ELSE <<>>,
   createdAt |-> day]

\* new Order({...}) as the OrderSchema stores it
NewOrder(tenantId, orderNumber, body, subtotal, total, day) ==
  [tenantId |-> tenantId,
   orderNumber |-> orderNumber,
   status |-> "pending",
   customer |-> body.customer,
   items |-> [i \in 1..Len(body.items) |-> StoredItem(body.items[i])],
   paymentMethod |-> body.paymentMethod,
   changeFor |-> CastNumber(body.changeFor),
   deliveryFee |-> CastNumber(DeliveryFee(body)).n,
   subtotal |-> CastNumber(subtotal).n,
   total |-> CastNumber(total).n,
   rating |-> Undef,
   notes |-> IF Truthy(body.notes) THEN <<body.notes.s>> ELSE <<>>,
   createdAt |-> day]

\* the document validation of save(): casts and required paths
OrderValid(body, subtotal, total) ==
  /\ ~CastFails(subtotal) /\ CastNumber(subtotal).t = "number"
  /\ ~CastFails(total) /\ CastNumber(total).t = "number"
  /\ ~CastFails(DeliveryFee(body))
  /\ ~CastFails(body.changeFor)
  /\ body.paymentMethod \in PaymentMethods
  /\ \A i \in 1..Len(body.items) :
       /\ CastNumber(body.items[i].quantity).t = "number"
       /\ CastNumber(body.items[i].quantity).n >= 1
       /\ CastNumber(body.items[i].unitPrice).t = "number"

(***************************************************************************)
(* POST /api/orders/:tenantId -- authenticateApiKey, tenantResolver,       *)
(* validate(validators.order), orderController.createOrder                 *)
(***************************************************************************)
\* creations between their entry and their save
CreatesInFlight ==
  Cardinality({s \in Slots : req[s].op = "createOrder" /\ req[s].pc \in {"generateOrderNumber", "save"}})

\* the middleware chain and createOrder up to its first store write: the API
\* key names tenant `key`, the URL names tenant `url`, and tenantResolver
\* leaves req.tenant at the tenant of the URL
ReceiveCreateOrder(r, key, url, b) ==
  /\ req[r].op = "idle"
  /\ LET body == Bodies[b]
         in == [EmptyReq EXCEPT !.op = "createOrder", !.tenantId = url, !.body = b]
         err == createOrderError(catalog, url, body)
         done(code, error) == [in EXCEPT !.pc = "done", !.res = Res(code, error)]
     IN  req' = [req EXCEPT ![r] =
           IF ~tenants[key].active THEN done(401, <<"API key">>)
           ELSE IF ~tenants[url].active THEN done(404, <<"tenant">>)
           ELSE IF ~JoiOrder(body) THEN done(400, <<"validation", JoiOrderError(body)>>)
           ELSE IF err = "CastError" THEN done(500, <<"internal">>)
           ELSE IF err # "" THEN done(400, <<"validation", err>>)
           ELSE [in EXCEPT !.pc = "generateOrderNumber",
                           !.subtotal = Subtotal(body.items, Len(body.items)),
                           !.total = Total(body)]]
  /\ UNCHANGED <<today, tenants, users, catalog, cache, orders, audit>>

\* a faulty GenerateOrderNumber: the owner is notified when the number is
\* allocated, before the order is saved
GenerateOrderNumberThenNotify(r) ==
  /\ req[r].op = "createOrder" /\ req[r].pc = "generateOrderNumber"
  /\ req' = [req EXCEPT ![r].orderNumber = generateOrderNumber(orders, req[r].tenantId, today),
                        ![r].notifyCalls = @ + 1,
                        ![r].pc = "save"]
  /\ UNCHANGED <<today, tenants, users, catalog, cache, orders, audit>>

\* const orderNumber = await Order.generateOrderNumber(tenantId)
GenerateOrderNumber(r) ==
  /\ req[r].op = "createOrder" /\ req[r].pc = "generateOrderNumber"
  /\ req' = [req EXCEPT ![r].orderNumber = generateOrderNumber(orders, req[r].tenantId, today),
                        ![r].pc = "save"]
  /\ UNCHANGED <<today, tenants, users, catalog, cache, orders, audit>>

\* new Order({...}); await order.save()
SaveOrder(r) ==
  /\ req[r].op = "createOrder" /\ req[r].pc = "save"
  /\ IF OrderValid(Bodies[req[r].body], req[r].subtotal, req[r].total)
     THEN /\ orders' = Append(orders,
                 NewOrder(req[r].tenantId, req[r].orderNumber, Bodies[req[r].body],
                          req[r].subtotal, req[r].total, today))
          /\ audit' = [audit EXCEPT !.savedAt = Append(@, audit.toggles[req[r].tenantId])]
          /\ req' = [req EXCEPT ![r].pc = "notifyNewOrder", ![r].saved = TRUE,
                                ![r].docId = Len(orders) + 1]
     ELSE /\ req' = [req EXCEPT ![r].pc = "done", ![r].res = Res(500, <<"internal">>)]
          /\ UNCHANGED <<orders, audit>>
  /\ UNCHANGED <<today, tenants, users, catalog, cache>>

\* await order.save() rejects (the database is unreachable, or the process
\* is stopped before the write): the catch blocks answer 500, nothing is stored
SaveOrderFails(r) ==
  /\ req[r].op = "createOrder" /\ req[r].pc = "save"
  /\ req' = [req EXCEPT ![r].pc = "done", ![r].res = Res(500, <<"internal">>)]
  /\ UNCHANGED <<today, tenants, users, catalog, cache, orders, audit>>

\* What Tenant.findById gives a notification: the tenant, the tenant without
\* a contact phone, no tenant, or a database error
TenantLookups == {"tenant", "noPhone", "missing", "error"}

\* botService.sendMessage: false when the tenant is not found or the lookup
\* throws, true otherwise (the sending itself is simulated)
sendMessage(lookup) == lookup \in {"tenant", "noPhone"}

\* botService.notifyNewOrder: false when the tenant is not found, has no
\* contact phone or anything throws, else what sendMessage returns
notifyNewOrder(lookup, sendLookup) ==
  IF lookup = "tenant" THEN sendMessage(sendLookup) ELSE FALSE

\* botService.notifyStatusChange: false when the tenant is not found or
\* anything throws, else what sendMessage returns (to the customer's phone)
notifyStatusChange(lookup, sendLookup) ==
  IF lookup \in {"tenant", "noPhone"} THEN sendMessage(sendLookup) ELSE FALSE

Notified(sent) == IF sent THEN "sent" ELSE "failed"

\* a faulty notification step: a failed notification fails the request
NotifyNewOrderOrFail(r, lookup, sendLookup) ==
  /\ req[r].op = "createOrder" /\ req[r].pc = "notifyNewOrder"
  /\ req' = [req EXCEPT ![r].notifyCalls = @ + 1, ![r].pc = "done",
                        ![r].notified = Notified(notifyNewOrder(lookup, sendLookup)),
                        ![r].res = IF notifyNewOrder(lookup, sendLookup)
                                   THEN Res(201, <<>>) ELSE Res(500, <<"internal">>)]
  /\ UNCHANGED <<today, tenants, users, catalog, cache, orders, audit>>

\* await botService.notifyNewOrder(tenantId, order); res.status(201).json(...):
\* the result of the notification is not looked at
NotifyNewOrderWith(r, lookup, sendLookup) ==
  /\ req[r].op = "createOrder" /\ req[r].pc = "notifyNewOrder"
  /\ req' = [req EXCEPT ![r].notifyCalls = @ + 1, ![r].pc = "done",
                        ![r].notified = Notified(notifyNewOrder(lookup, sendLookup)),
                        ![r].res = Res(201, <<>>)]
  /\ UNCHANGED <<today, tenants, users, catalog, cache, orders, audit>>

\* the step when the notification is delivered
NotifyNewOrder(r) == NotifyNewOrderWith(r, "tenant", "tenant")

(***************************************************************************)
(* PATCH /api/orders/:id/status -- authenticateJwt, authorize,             *)
(* validate(validators.orderStatus), orderController.updateOrderStatus     *)
(***************************************************************************)
\* a faulty transition table: a cancelled order may be taken up again
validTransitionsResume(from) ==
  CASE from = "pending" -> {"confirmed", "cancelled"}
    [] from = "confirmed" -> {"preparing", "cancelled"}
    [] from = "preparing" -> {"delivering", "completed", "cancelled"}
    [] from = "delivering" -> {"completed", "cancelled"}
    [] from = "completed" -> {}
    [] from = "cancelled" -> {"pending"}

\* a faulty transition table: a completed order may go back to preparing
validTransitionsReopen(from) ==
  CASE from = "pending" -> {"confirmed", "cancelled"}
    [] from = "confirmed" -> {"preparing", "cancelled"}
    [] from = "preparing" -> {"delivering", "completed", "cancelled"}
    [] from = "delivering" -> {"completed", "cancelled"}
    [] from = "completed" -> {"preparing"}
    [] from = "cancelled" -> {}

validTransitions(from) ==
  CASE from = "pending" -> {"confirmed", "cancelled"}
    [] from = "confirmed" -> {"preparing", "cancelled"}
    [] from = "preparing" -> {"delivering", "completed", "cancelled"}
    [] from = "delivering" -> {"completed", "cancelled"}
    [] from = "completed" -> {}
    [] from = "cancelled" -> {}

\* a faulty FindOrderById: the order is looked up by its _id alone
FindOrderByIdOfAnyTenant(ords, id, tenantId) ==
  IF id \in DOMAIN ords THEN id ELSE 0

\* Order.findOne({ _id: id, tenantId }): the _id, 0 when there is none
FindOrderById(ords, id, tenantId) ==
  IF id \in DOMAIN ords /\ ords[id].tenantId = tenantId THEN id ELSE 0

\* the middleware chain and updateOrderStatus up to its store write
ReceiveUpdateOrderStatus(r, t, id, status) ==
  /\ req[r].op = "idle"
  /\ LET in == [EmptyReq EXCEPT !.op = "updateOrderStatus", !.tenantId = t,
                                !.id = id, !.status = status]
         doc == FindOrderById(orders, id, t)
         done(code, error) == [in EXCEPT !.pc = "done", !.res = Res(code, error)]
         loaded == [in EXCEPT !.docId = doc, !.docStatus = orders[doc].status]
     IN  req' = [req EXCEPT ![r] =
           IF ~users[t].active THEN done(401, <<"user">>)
           ELSE IF ~JoiOrderStatus(status) THEN done(400, <<"validation">>)
           ELSE IF doc = 0 THEN done(404, <<"order">>)
           ELSE IF status \notin validTransitions(orders[doc].status)
                THEN [loaded EXCEPT !.pc = "done",
                        !.res = Res(400, <<"transition", orders[doc].status, status>>)]
           ELSE [loaded EXCEPT !.pc = "save"]]
  /\ UNCHANGED <<today, tenants, users, catalog, cache, orders, audit>>

\* a faulty SaveStatus: the save writes the notes too, as the request holds
\* them (it never loaded any)
SaveStatusOverwritesNotes(r) ==
  /\ req[r].op = "updateOrderStatus" /\ req[r].pc = "save"
  /\ orders' = [orders EXCEPT ![req[r].docId].status = req[r].status,
                              ![req[r].docId].notes = req[r].notes]
  /\ req' = [req EXCEPT ![r].pc = "notifyStatusChange", ![r].saved = TRUE]
  /\ UNCHANGED <<today, tenants, users, catalog, cache, audit>>

\* a faulty SaveStatus: the save reports success and writes nothing
SaveStatusWritesNothing(r) ==
  /\ req[r].op = "updateOrderStatus" /\ req[r].pc = "save"
  /\ req' = [req EXCEPT ![r].pc = "notifyStatusChange", ![r].saved = TRUE]
  /\ UNCHANGED <<today, tenants, users, catalog, cache, orders, audit>>

\* order.status = status; await order.save(): the modified path is written
SaveStatus(r) ==
  /\ req[r].op = "updateOrderStatus" /\ req[r].pc = "save"
  /\ orders' = [orders EXCEPT ![req[r].docId].status = req[r].status]
  /\ req' = [req EXCEPT ![r].pc = "notifyStatusChange", ![r].saved = TRUE]
  /\ UNCHANGED <<today, tenants, users, catalog, cache, audit>>

\* await botService.notifyStatusChange(tenantId, order); res.json(...): the
\* result of the notification is not looked at
NotifyStatusChangeWith(r, lookup, sendLookup) ==
  /\ req[r].op = "updateOrderStatus" /\ req[r].pc = "notifyStatusChange"
  /\ req' = [req EXCEPT ![r].notifyCalls = @ + 1, ![r].pc = "done",
                        ![r].notified = Notified(notifyStatusChange(lookup, sendLookup)),
                        ![r].res = Res(200, <<>>)]
  /\ UNCHANGED <<today, tenants, users, catalog, cache, orders, audit>>

\* the step when the notification is delivered
NotifyStatusChange(r) == NotifyStatusChangeWith(r, "tenant", "tenant")

(***************************************************************************)
(* POST /api/orders/:tenantId/rate/:orderNumber -- authenticateApiKey,     *)
(* tenantResolver, orderController.rateOrder                               *)
(***************************************************************************)
\* Order.findOne({ tenantId, orderNumber }): the first match, 0 when none
RECURSIVE FindOrderByNumber(_, _, _, _)
FindOrderByNumber(ords, tenantId, orderNumber, i) ==
  IF i > Len(ords) THEN 0
  ELSE IF ords[i].tenantId = tenantId /\ ords[i].orderNumber = orderNumber THEN i
  ELSE FindOrderByNumber(ords, tenantId, orderNumber, i + 1)

\* !rating || rating < 1 || rating > 5
RatingRejected(rating) ==
  ~Truthy(rating) \/ JsLess(rating, Num(1)) \/ JsGreater(rating, Num(5))

RatingNote(comment) == <<"A", "v", "a", "l", "i", "a">> \o ToStr(comment)

\* the middleware chain and rateOrder up to its store write
ReceiveRateOrder(r, key, url, orderNumber, rating, comment) ==
  /\ req[r].op = "idle"
  /\ LET in == [EmptyReq EXCEPT !.op = "rateOrder", !.tenantId = url,
                                !.orderNumber = orderNumber, !.rating = rating,
                                !.comment = comment]
         doc == FindOrderByNumber(orders, url, orderNumber, 1)
         done(code, error) == [in EXCEPT !.pc = "done", !.res = Res(code, error)]
         loaded == [in EXCEPT !.docId = doc, !.docStatus = orders[doc].status]
     IN  req' = [req EXCEPT ![r] =
           IF ~tenants[key].active THEN done(401, <<"API key">>)
           ELSE IF ~tenants[url].active THEN done(404, <<"tenant">>)
           ELSE IF RatingRejected(rating) THEN done(400, <<"rating">>)
           ELSE IF doc = 0 THEN done(404, <<"order">>)
           ELSE IF orders[doc].status # "completed"
                THEN [loaded EXCEPT !.pc = "done", !.res = Res(400, <<"status">>)]
           ELSE [loaded EXCEPT !.pc = "save",
                   !.notes = IF Truthy(comment)
                               THEN Append(orders[doc].notes, RatingNote(comment))
                               ELSE orders[doc].notes]]
  /\ UNCHANGED <<today, tenants, users, catalog, cache, orders, audit>>

\* order.rating = rating; order.notes = ...; await order.save(); res.json(...):
\* save() rejects a rating that does not cast to a number, else it writes the
\* modified paths
SaveRating(r) ==
  /\ req[r].op = "rateOrder" /\ req[r].pc = "save"
  /\ IF CastFails(req[r].rating)
     THEN /\ req' = [req EXCEPT ![r].pc = "done", ![r].res = Res(500, <<"internal">>)]
          /\ UNCHANGED orders
     ELSE /\ orders' = [orders EXCEPT
                 ![req[r].docId].rating = CastNumber(req[r].rating),
                 ![req[r].docId].notes =
                    IF Truthy(req[r].comment) THEN req[r].notes ELSE @]
          /\ req' = [req EXCEPT ![r].pc = "done", ![r].saved = TRUE,
                                ![r].res = Res(200, <<>>)]
  /\ UNCHANGED <<today, tenants, users, catalog, cache, audit>>

\* GET /api/orders/:tenantId/status/:orderNumber -- authenticateApiKey,
\* tenantResolver, getOrderStatus: the order is looked up under req.tenant,
\* the tenant of the URL
getOrderStatus(r, key, url, orderNumber) ==
  /\ req[r].op = "idle"
  /\ LET in == [EmptyReq EXCEPT !.op = "getOrderStatus", !.tenantId = url,
                                !.orderNumber = orderNumber, !.pc = "done"]
         doc == FindOrderByNumber(orders, url, orderNumber, 1)
     IN  req' = [req EXCEPT ![r] =
           IF ~tenants[key].active THEN [in EXCEPT !.res = Res(401, <<"API key">>)]
           ELSE IF ~tenants[url].active THEN [in EXCEPT !.res = Res(404, <<"tenant">>)]
           ELSE IF doc = 0 THEN [in EXCEPT !.res = Res(404, <<"order">>)]
           ELSE [in EXCEPT !.res = Res(200, <<>>), !.docId = doc,
                           !.docStatus = orders[doc].status]]
  /\ UNCHANGED <<today, tenants, users, catalog, cache, orders, audit>>

(***************************************************************************)
(* PATCH /api/orders/:id/notes -- authenticateJwt, authorize,              *)
(* orderController.addOrderNote                                            *)
(***************************************************************************)
\* `[${timestamp}] ${req.user.name}: ${note}`
NoteWithTimestamp(day, note) == DateStr(day) \o <<" ">> \o ToStr(note)

\* the middleware chain and addOrderNote up to its store write
ReceiveAddOrderNote(r, t, id, note) ==
  /\ req[r].op = "idle"
  /\ LET in == [EmptyReq EXCEPT !.op = "addOrderNote", !.tenantId = t,
                                !.id = id, !.comment = note]
         doc == FindOrderById(orders, id, t)
         done(code, error) == [in EXCEPT !.pc = "done", !.res = Res(code, error)]
     IN  req' = [req EXCEPT ![r] =
           IF ~users[t].active THEN done(401, <<"user">>)
           ELSE IF ~Truthy(note) THEN done(400, <<"note">>)
           ELSE IF doc = 0 THEN done(404, <<"order">>)
           ELSE [in EXCEPT !.pc = "save", !.docId = doc,
                           !.docStatus = orders[doc].status,
                           !.notes = Append(orders[doc].notes,
                                            NoteWithTimestamp(today, note))]]
  /\ UNCHANGED <<today, tenants, users, catalog, cache, orders, audit>>

\* a faulty SaveNote: the save keeps only the entry just built
SaveNoteKeepsLastOnly(r) ==
  /\ req[r].op = "addOrderNote" /\ req[r].pc = "save"
  /\ orders' = [orders EXCEPT ![req[r].docId].notes = <<req[r].notes[Len(req[r].notes)]>>]
  /\ req' = [req EXCEPT ![r].pc = "done", ![r].saved = TRUE,
                        ![r].res = Res(200, <<>>)]
  /\ UNCHANGED <<today, tenants, users, catalog, cache, audit>>

\* await order.save(); res.json(...)
SaveNote(r) ==
  /\ req[r].op = "addOrderNote" /\ req[r].pc = "save"
  /\ orders' = [orders EXCEPT ![req[r].docId].notes = req[r].notes]
  /\ req' = [req EXCEPT ![r].pc = "done", ![r].saved = TRUE,
                        ![r].res = Res(200, <<>>)]
  /\ UNCHANGED <<today, tenants, users, catalog, cache, audit>>

(***************************************************************************)
(* GET /api/orders and GET /api/orders/:id -- authenticateJwt, authorize,  *)
(* orderController.getAllOrders, orderController.getOrderById              *)
(***************************************************************************)
\* a query string of GET /api/orders; "" and 0 stand for an absent parameter,
\* dates are day numbers
Query(status, phone, dateFrom, dateTo, page, limit) ==
  [status |-> status, phone |-> phone, dateFrom |-> dateFrom, dateTo |-> dateTo,
   page |-> page, limit |-> limit]

Queries ==
  << \* 1: no parameter
     Query("", <<>>, 0, 0, Undef, Undef),
     \* 2: the pending orders
     Query("pending", <<>>, 0, 0, Undef, Undef),
     \* 3: the second page of pages of one order
     Query("", <<>>, 0, 0, Str(<<"2">>), Str(<<"1">>)),
     \* 4: the orders of a customer since day 2, with a limit of zero
     Query("", Customer.phone.s, 2, 0, Undef, Str(<<"0">>)),
     \* 5: the orders until day 2
     Query("", <<>>, 0, 2, Undef, Undef) >>

\* the filter that getAllOrders builds; new Date(dateTo) is the first instant
\* of that day, so $lte keeps the orders of the days before it
MatchesFilter(order, tenantId, q) ==
  /\ order.tenantId = tenantId
  /\ q.status # "" => order.status = q.status
  /\ q.phone # <<>> => order.customer.phone.s = q.phone
  /\ q.dateFrom # 0 => order.createdAt >= q.dateFrom
  /\ q.dateTo # 0 => order.createdAt < q.dateTo

\* Order.find(filter).sort({ createdAt: -1 }): the matching orders among the
\* first i, the latest first
RECURSIVE FindOrders(_, _, _, _)
FindOrders(ords, tenantId, q, i) ==
  IF i = 0 THEN <<>>
  ELSE IF MatchesFilter(ords[i], tenantId, q)
       THEN <<i>> \o FindOrders(ords, tenantId, q, i - 1)
  ELSE FindOrders(ords, tenantId, q, i - 1)

\* parseInt(req.query.x) || dflt
QueryInt(v, dflt) ==
  JsOr(IF v.t = "string" THEN parseInt(v.s) ELSE NaN, Num(dflt)).n

\* .skip(skip).limit(limit)
Page(found, skip, limit) ==
  SubSeq(found, skip + 1, IF skip + limit < Len(found) THEN skip + limit ELSE Len(found))

\* the middleware chain and getAllOrders
getAllOrders(r, t, k) ==
  /\ req[r].op = "idle"
  /\ LET in == [EmptyReq EXCEPT !.op = "getAllOrders", !.tenantId = t, !.pc = "done"]
         found == FindOrders(orders, t, Queries[k], Len(orders))
         page == QueryInt(Queries[k].page, 1)
         limit == QueryInt(Queries[k].limit, 10)
     IN  req' = [req EXCEPT ![r] =
           IF ~users[t].active THEN [in EXCEPT !.res = Res(401, <<"user">>)]
           ELSE [in EXCEPT !.res = Res(200, <<>>),
                           !.returned = Page(found, (page - 1) * limit, limit),
                           !.count = Len(found)]]
  /\ UNCHANGED <<today, tenants, users, catalog, cache, orders, audit>>

\* the middleware chain and getOrderById
getOrderById(r, t, id) ==
  /\ req[r].op = "idle"
  /\ LET in == [EmptyReq EXCEPT !.op = "getOrderById", !.tenantId = t,
                                !.id = id, !.pc = "done"]
         doc == FindOrderById(orders, id, t)
     IN  req' = [req EXCEPT ![r] =
           IF ~users[t].active THEN [in EXCEPT !.res = Res(401, <<"user">>)]
           ELSE IF doc = 0 THEN [in EXCEPT !.res = Res(404, <<"order">>)]
           ELSE [in EXCEPT !.res = Res(200, <<>>), !.docId = doc,
                           !.returned = <<doc>>]]
  /\ UNCHANGED <<today, tenants, users, catalog, cache, orders, audit>>

(***************************************************************************)
(* GET /api/orders/stats/overview -- authenticateJwt, authorize,           *)
(* orderController.getOrderStats, orderService.getOrderStatistics          *)
(***************************************************************************)
\* Instants: a day has a first instant (new Date of a date-only string, or
\* setHours(0, 0, 0, 0)) and the instant at which its requests run
StartOfDay(day) == 2 * day
During(day) == 2 * day + 1

\* dateFilter: { tenantId, createdAt: { $gte: startDate, $lte: endDate } }
dateFilter(order, tenantId, startDate, endDate) ==
  /\ order.tenantId = tenantId
  /\ During(order.createdAt) >= startDate
  /\ During(order.createdAt) <= endDate

\* the orders among the first i that match the filter and, unless status
\* is "", have that status
RECURSIVE Matching(_, _, _, _, _, _)
Matching(ords, tenantId, startDate, endDate, status, i) ==
  IF i = 0 THEN <<>>
  ELSE Matching(ords, tenantId, startDate, endDate, status, i - 1) \o
       (IF /\ dateFilter(ords[i], tenantId, startDate, endDate)
           /\ status # "" => ords[i].status = status
        THEN <<ords[i]>> ELSE <<>>)

\* a faulty sum: cancelled orders are left out
RECURSIVE SumTotalWithoutCancelled(_, _)
SumTotalWithoutCancelled(docs, i) ==
  IF i = 0 THEN 0
  ELSE SumTotalWithoutCancelled(docs, i - 1) +
       (IF docs[i].status = "cancelled" THEN 0 ELSE docs[i].total)

\* { $sum: '$total' } over the first i documents of a group
RECURSIVE SumTotal(_, _)
SumTotal(docs, i) ==
  IF i = 0 THEN 0 ELSE SumTotal(docs, i - 1) + docs[i].total

\* { $avg: '$total' } over a group that is not empty: an exact quotient
Average(docs) == [num |-> SumTotal(docs, Len(docs)), den |-> Len(docs)]

Zero == [num |-> 0, den |-> 1]

\* a faulty getOrderStatistics: the results of the aggregations are used
\* without a default for an empty match
getOrderStatisticsWithoutDefault(ords, tenantId, startDate, endDate) ==
  LET all == Matching(ords, tenantId, startDate, endDate, "", Len(ords))
      group(st) == Matching(ords, tenantId, startDate, endDate, st, Len(ords))
  IN  [totalOrders |-> Len(all),
       byStatus |-> [st \in {all[i].status : i \in DOMAIN all} |->
                       [count |-> Len(group(st)),
                        total |-> SumTotal(group(st), Len(group(st)))]],
       averageTicket |-> Average(all),
       totalSales |-> SumTotal(all, Len(all))]

\* orderService.getOrderStatistics
getOrderStatistics(ords, tenantId, startDate, endDate) ==
  LET all == Matching(ords, tenantId, startDate, endDate, "", Len(ords))
      group(st) == Matching(ords, tenantId, startDate, endDate, st, Len(ords))
  IN  [totalOrders |-> Len(all),
       byStatus |-> [st \in {all[i].status : i \in DOMAIN all} |->
                       [count |-> Len(group(st)),
                        total |-> SumTotal(group(st), Len(group(st)))]],
       averageTicket |-> IF Len(all) > 0 THEN Average(all) ELSE Zero,
       totalSales |-> IF Len(all) > 0 THEN SumTotal(all, Len(all)) ELSE 0]

\* the periods of req.query.period ("" when absent), and for 'custom' the
\* days of req.query.startDate and req.query.endDate (0 when absent)
Periods == {"", "today", "week", "month", "custom", "year"}

\* the middleware chain and getOrderStats: a week is seven days, a month
\* back from a day of November is thirty-one
getOrderStats(r, t, period, startDay, endDay) ==
  /\ req[r].op = "idle"
  /\ LET startDate ==
           CASE period = "week" -> During(today - 7)
             [] period = "month" -> During(today - 31)
             [] period = "custom" ->
                  IF startDay # 0 THEN StartOfDay(startDay) ELSE During(today - 31)
             [] OTHER -> StartOfDay(today)
         endDate ==
           IF period = "custom" /\ endDay # 0 THEN StartOfDay(endDay) ELSE During(today)
         in == [EmptyReq EXCEPT !.op = "getOrderStats", !.tenantId = t, !.pc = "done",
                                !.startDate = startDate, !.endDate = endDate]
     IN  req' = [req EXCEPT ![r] =
           IF ~users[t].active THEN [in EXCEPT !.res = Res(401, <<"user">>)]
           ELSE [in EXCEPT !.res = Res(200, <<>>),
                           !.stats = getOrderStatistics(orders, t, startDate, endDate)]]
  /\ UNCHANGED <<today, tenants, users, catalog, cache, orders, audit>>

\* getOrderStats query by query, for a custom period with both dates: the
\* middleware chain and the dates, then the four awaits of getOrderStatistics
ReceiveGetOrderStats(r, t, startDay, endDay) ==
  /\ req[r].op = "idle"
  /\ LET in == [EmptyReq EXCEPT !.op = "getOrderStats", !.tenantId = t,
                                !.startDate = StartOfDay(startDay),
                                !.endDate = StartOfDay(endDay)]
     IN  req' = [req EXCEPT ![r] =
           IF ~users[t].active
           THEN [in EXCEPT !.pc = "done", !.res = Res(401, <<"user">>)]
           ELSE [in EXCEPT !.pc = "countDocuments"]]
  /\ UNCHANGED <<today, tenants, users, catalog, cache, orders, audit>>

\* const totalOrders = await Order.countDocuments(dateFilter)
CountDocuments(r) ==
  /\ req[r].op = "getOrderStats" /\ req[r].pc = "countDocuments"
  /\ req' = [req EXCEPT ![r].pc = "ordersByStatus",
               ![r].stats.totalOrders =
                  getOrderStatistics(orders, req[r].tenantId,
                                     req[r].startDate, req[r].endDate).totalOrders]
  /\ UNCHANGED <<today, tenants, users, catalog, cache, orders, audit>>

\* const ordersByStatus = await Order.aggregate([... $group by '$status'])
OrdersByStatus(r) ==
  /\ req[r].op = "getOrderStats" /\ req[r].pc = "ordersByStatus"
  /\ req' = [req EXCEPT ![r].pc = "averageTicket",
               ![r].stats.byStatus =
                  getOrderStatistics(orders, req[r].tenantId,
                                     req[r].startDate, req[r].endDate).byStatus]
  /\ UNCHANGED <<today, tenants, users, catalog, cache, orders, audit>>

\* const averageTicket = await Order.aggregate([... $avg: '$total'])
AverageTicket(r) ==
  /\ req[r].op = "getOrderStats" /\ req[r].pc = "averageTicket"
  /\ req' = [req EXCEPT ![r].pc = "totalSales",
               ![r].stats.averageTicket =
                  getOrderStatistics(orders, req[r].tenantId,
                                     req[r].startDate, req[r].endDate).averageTicket]
  /\ UNCHANGED <<today, tenants, users, catalog, cache, orders, audit>>

\* const totalSales = await Order.aggregate([... $sum: '$total']); return;
\* res.json({ stats })
TotalSales(r) ==
  /\ req[r].op = "getOrderStats" /\ req[r].pc = "totalSales"
  /\ req' = [req EXCEPT ![r].pc = "done", ![r].res = Res(200, <<>>),
               ![r].stats.totalSales =
                  getOrderStatistics(orders, req[r].tenantId,
                                     req[r].startDate, req[r].endDate).totalSales]
  /\ UNCHANGED <<today, tenants, users, catalog, cache, orders, audit>>

(***************************************************************************)
(* reportService.generateSalesReport                                       *)
(***************************************************************************)
\* the documents of docs created on a day
OfDay(docs, day) ==
  LET Test(doc) == doc.createdAt = day IN SelectSeq(docs, Test)

\* dailySales and salesByDay: one entry for every day with orders, in the
\* order of the days up to day d (the server's clock is UTC)
RECURSIVE SalesByDay(_, _)
SalesByDay(docs, d) ==
  IF d = 0 THEN <<>>
  ELSE SalesByDay(docs, d - 1) \o
       (IF Len(OfDay(docs, d)) = 0 THEN <<>>
        ELSE <<[date |-> DateStr(d), count |-> Len(OfDay(docs, d)),
                total |-> SumTotal(OfDay(docs, d), Len(OfDay(docs, d)))]>>)

\* salesByPaymentMethod: one entry for every payment method with orders (the
\* $sort by total only orders them)
SalesByPaymentMethod(docs) ==
  {[method |-> m,
    count |-> Len(SelectSeq(docs, LAMBDA doc : doc.paymentMethod = m)),
    total |-> SumTotal(SelectSeq(docs, LAMBDA doc : doc.paymentMethod = m),
                       Len(SelectSeq(docs, LAMBDA doc : doc.paymentMethod = m)))] :
     m \in {docs[i].paymentMethod : i \in DOMAIN docs}}

\* { $sum: '$items.quantity' } and { $sum: { $multiply: [quantity, unitPrice] } }
\* over the unwound items of the first i documents
RECURSIVE ItemsSum(_, _, _)
ItemsSum(docs, i, priced) ==
  IF i = 0 THEN 0
  ELSE LET items == docs[i].items
           RECURSIVE Over(_)
           Over(k) == IF k = 0 THEN 0
                      ELSE Over(k - 1) + (IF priced THEN items[k].quantity * items[k].unitPrice
                                          ELSE items[k].quantity)
       IN  ItemsSum(docs, i - 1, priced) + Over(Len(items))

\* categorySales and salesByCategory: no product of the catalog has a
\* category, so every item falls into the group without category
SalesByCategory(docs) ==
  IF \A i \in DOMAIN docs : Len(docs[i].items) = 0 THEN <<>>
  ELSE <<[categoryId |-> "sem-categoria", categoryName |-> "Sem Categoria",
          count |-> ItemsSum(docs, Len(docs), FALSE),
          total |-> ItemsSum(docs, Len(docs), TRUE)]>>

\* { $min: '$total' } and { $max: '$total' } over a group that is not empty
MinTotal(docs) ==
  CHOOSE m \in {docs[i].total : i \in DOMAIN docs} : \A i \in DOMAIN docs : m <= docs[i].total
MaxTotal(docs) ==
  CHOOSE m \in {docs[i].total : i \in DOMAIN docs} : \A i \in DOMAIN docs : m >= docs[i].total

\* reportService.generateSalesReport; no order is created after day `day`
generateSalesReport(ords, tenantId, startDate, endDate, day) ==
  LET docs == Matching(ords, tenantId, startDate, endDate, "", Len(ords))
  IN  [stats |-> IF Len(docs) > 0
                 THEN [totalOrders |-> Len(docs),
                       totalSales |-> SumTotal(docs, Len(docs)),
                       averageTicket |-> Average(docs),
                       minTicket |-> MinTotal(docs),
                       maxTicket |-> MaxTotal(docs)]
                 ELSE [totalOrders |-> 0, totalSales |-> 0, averageTicket |-> Zero,
                       minTicket |-> 0, maxTicket |-> 0],
       salesByDay |-> SalesByDay(docs, day),
       salesByPaymentMethod |-> SalesByPaymentMethod(docs),
       salesByCategory |-> SalesByCategory(docs)]

\* a call of generateSalesReport for tenant t and a window of instants
SalesReport(r, t, startDate, endDate) ==
  /\ req[r].op = "idle"
  /\ req' = [req EXCEPT ![r] =
       [EmptyReq EXCEPT !.op = "generateSalesReport", !.tenantId = t, !.pc = "done",
                        !.startDate = startDate, !.endDate = endDate,
                        !.res = Res(200, <<>>),
                        !.report = generateSalesReport(orders, t, startDate, endDate, today)]]
  /\ UNCHANGED <<today, tenants, users, catalog, cache, orders, audit>>

(***************************************************************************)
(* Catalog: GET /api/catalog/:tenantId/products (getProducts) and the      *)
(* administrators' updateProduct, toggleProductStatus and deleteProduct    *)
(***************************************************************************)
\* Catalog.find({ tenantId, available: true }).sort(...): the ids of the
\* tenant's available products among the first i ids, in the order of the ids
RECURSIVE FindAvailable(_, _, _)
FindAvailable(cat, tenantId, i) ==
  IF i = 0 THEN <<>>
  ELSE FindAvailable(cat, tenantId, i - 1) \o
       (IF i \in DOMAIN cat /\ cat[i].tenantId = tenantId /\ cat[i].available
        THEN <<i>> ELSE <<>>)

\* getProducts up to its query: the middleware chain and the look into the
\* cache, whose entry (an array, truthy even when empty) is the answer
ReceiveGetProducts(r, t) ==
  /\ req[r].op = "idle"
  /\ LET in == [EmptyReq EXCEPT !.op = "getProducts", !.tenantId = t]
     IN  req' = [req EXCEPT ![r] =
           IF ~tenants[t].active
             THEN [in EXCEPT !.pc = "done", !.res = Res(401, <<"API key">>)]
           ELSE IF cache[t].cached
             THEN [in EXCEPT !.pc = "done", !.res = Res(200, <<"cache">>),
                             !.returned = cache[t].products]
           ELSE [in EXCEPT !.pc = "find"]]
  /\ UNCHANGED <<today, tenants, users, catalog, cache, orders, audit>>

\* await Catalog.find(...): the database answers the query
FindProducts(r) ==
  /\ req[r].op = "getProducts" /\ req[r].pc = "find"
  /\ req' = [req EXCEPT ![r].pc = "set",
                        ![r].returned = FindAvailable(catalog, req[r].tenantId,
                                                      Len(InitCatalog))]
  /\ UNCHANGED <<today, tenants, users, catalog, cache, orders, audit>>

\* cacheManager.set(cacheKey, products); res.json({ products })
CacheProducts(r) ==
  /\ req[r].op = "getProducts" /\ req[r].pc = "set"
  /\ cache' = [cache EXCEPT ![req[r].tenantId] =
                 [cached |-> TRUE, products |-> req[r].returned]]
  /\ req' = [req EXCEPT ![r].pc = "done", ![r].res = Res(200, <<"database">>)]
  /\ UNCHANGED <<today, tenants, users, catalog, orders, audit>>

\* the entry of a tenant's product list reaches its time to live
Expire(t) ==
  /\ cache[t].cached
  /\ cache' = [cache EXCEPT ![t] = [cached |-> FALSE, products |-> <<>>]]
  /\ UNCHANGED <<today, tenants, users, catalog, orders, req, audit>>

\* Catalog.findOne({ _id: req.params.id, tenantId }): the _id, 0 when none
FindProductById(cat, id, tenantId) ==
  IF id \in DOMAIN cat /\ cat[id].tenantId = tenantId THEN id ELSE 0

\* bodies of PUT /api/catalog/:id, each with a name and a category;
\* available is "" and productType is "" when they are not sent, hasSizes
\* tells whether sizesPrices is sent, categoryExists and sizesExist whether
\* the tenant has the category and the sizes that the body names
ProductUpdate(price, available, productType, hasSizes, sizesPrices, categoryExists) ==
  [price |-> price, available |-> available, productType |-> productType,
   hasSizes |-> hasSizes, sizesPrices |-> sizesPrices,
   categoryExists |-> categoryExists, sizesExist |-> TRUE]

ProductUpdates ==
  << \* 1: a new price
     ProductUpdate(Num(99), "", "", FALSE, <<>>, TRUE),
     \* 2: the product is made unavailable
     ProductUpdate(Num(0), "false", "standard", FALSE, <<>>, TRUE),
     \* 3: a pizza with a new price for its size
     ProductUpdate(Undef, "", "pizza", TRUE, <<[sizeName |-> TamanhoG, price |-> 55]>>, TRUE),
     \* 4: a category that the tenant does not have
     ProductUpdate(Num(99), "", "", FALSE, <<>>, FALSE),
     \* 5: no price for a standard product
     ProductUpdate(Undef, "", "", FALSE, <<>>, TRUE) >>

\* validators.product on a body with a name and a category: the price is
\* required unless the product is a pizza, a pizza requires sizes
JoiProduct(update) ==
  /\ update.price = Undef \/ JoiNumber(update.price)
  /\ update.productType \in {"", "standard", "pizza", "hamburger"}
  /\ update.productType # "pizza" => update.price # Undef
  /\ update.productType = "pizza" => update.hasSizes /\ Len(update.sizesPrices) >= 1

\* what updateProduct answers before it changes the product: "" when it goes on
updateProductError(update) ==
  IF ~update.categoryExists THEN "category"
  ELSE IF /\ update.productType = "pizza"
          /\ update.hasSizes /\ Len(update.sizesPrices) > 0
          /\ ~update.sizesExist THEN "sizes"
  ELSE ""

\* the operations updateProduct, toggleProductStatus and deleteProduct up to
\* their write: the middleware chain and the lookup of the product
ReceiveProductChange(r, op, t, id, b) ==
  /\ req[r].op = "idle"
  /\ op \in {"updateProduct", "toggleProductStatus", "deleteProduct"}
  /\ LET in == [EmptyReq EXCEPT !.op = op, !.tenantId = t, !.id = id, !.body = b]
         doc == FindProductById(catalog, id, t)
         done(code, error) == [in EXCEPT !.pc = "done", !.res = Res(code, error)]
     IN  req' = [req EXCEPT ![r] =
           IF ~users[t].active THEN done(401, <<"user">>)
           ELSE IF op = "updateProduct" /\ ~JoiProduct(ProductUpdates[b])
             THEN done(400, <<"validation">>)
           ELSE IF doc = 0 THEN done(404, <<"product">>)
           ELSE IF op = "updateProduct" /\ updateProductError(ProductUpdates[b]) # ""
             THEN done(400, <<updateProductError(ProductUpdates[b])>>)
           ELSE [in EXCEPT !.pc = "save", !.docId = doc,
                           !.available = catalog[doc].available]]
  /\ UNCHANGED <<today, tenants, users, catalog, cache, orders, audit>>

\* the fields that updateProduct assigns before it saves
UpdatedProduct(product, update) ==
  [product EXCEPT
     !.price = IF update.price = Undef THEN @ ELSE CastNumber(update.price).n,
     !.available = IF update.available = "" THEN @ ELSE update.available = "true",
     !.productType = IF update.productType = "" THEN @ ELSE update.productType,
     !.sizesPrices = IF update.hasSizes THEN update.sizesPrices ELSE @]

\* await product.save() / await product.remove(): save() writes the modified
\* paths and fails when the document is gone, remove() of a document that
\* is gone does nothing
SaveProduct(r) ==
  /\ req[r].pc = "save"
  /\ req[r].op \in {"updateProduct", "toggleProductStatus", "deleteProduct"}
  /\ LET id == req[r].docId
     IN  IF id \notin DOMAIN catalog /\ req[r].op # "deleteProduct"
         THEN /\ req' = [req EXCEPT ![r].pc = "done", ![r].res = Res(500, <<"internal">>)]
              /\ UNCHANGED catalog
         ELSE /\ catalog' =
                   IF req[r].op = "deleteProduct"
                     THEN [p \in DOMAIN catalog \ {id} |-> catalog[p]]
                   ELSE IF req[r].op = "toggleProductStatus"
                     THEN [catalog EXCEPT ![id].available = ~req[r].available]
                   ELSE [catalog EXCEPT ![id] = UpdatedProduct(@, ProductUpdates[req[r].body])]
              /\ req' = [req EXCEPT ![r].pc = "invalidate", ![r].saved = TRUE]
  /\ UNCHANGED <<today, tenants, users, cache, orders, audit>>

\* cacheManager.delByPrefix(`tenant_${tenantId}_products`), ...; res.json(...)
InvalidateProducts(r) ==
  /\ req[r].pc = "invalidate"
  /\ cache' = [cache EXCEPT ![req[r].tenantId] = [cached |-> FALSE, products |-> <<>>]]
  /\ req' = [req EXCEPT ![r].pc = "done", ![r].res = Res(200, <<>>)]
  /\ UNCHANGED <<today, tenants, users, catalog, orders, audit>>

\* the response has been sent: the slot is free for the next request
Finish(r) ==
  /\ req[r].pc = "done"
  /\ req' = [req EXCEPT ![r] = EmptyReq]
  /\ UNCHANGED <<today, tenants, users, catalog, cache, orders, audit>>

(***************************************************************************)
(* PATCH /api/tenants/:id/toggle-status and the passing of days            *)
(***************************************************************************)
\* tenant.active = !tenant.active; save; deactivation also deactivates the users
toggleTenantStatus(t) ==
  /\ tenants' = [tenants EXCEPT ![t].active = ~@]
  /\ users' = IF tenants[t].active THEN [users EXCEPT ![t].active = FALSE] ELSE users
  /\ audit' = [audit EXCEPT !.toggles[t] = @ + 1]
  /\ UNCHANGED <<today, catalog, cache, orders, req>>

\* midnight (UTC): new Date() yields the next day
Midnight ==
  /\ today' = today + 1
  /\ UNCHANGED <<tenants, users, catalog, cache, orders, req, audit>>

(***************************************************************************)
(* Specifications                                                          *)
(***************************************************************************)
Init ==
  /\ today = 1
  /\ tenants = [t \in Tenants |-> [active |-> TRUE]]
  /\ users = [t \in Tenants |-> [active |-> TRUE]]
  /\ catalog = InitCatalog
  /\ cache = NoCache
  /\ orders = <<>>
  /\ req = [r \in Slots |-> EmptyReq]
  /\ audit = [toggles |-> [t \in Tenants |-> 0], savedAt |-> <<>>]

RatingInputs == {Undef, Num(0), Num(1), Num(5), Num(6), Str(<<"a", "b", "c">>)}

CommentInputs == {Undef, Str(<<>>), Str(<<"o", "k">>)}

OrderNumberInputs ==
  {orders[i].orderNumber : i \in DOMAIN orders} \cup {<<"O", "R", "D">>}

\* Order creation alone: requests of both tenants arrive at any time and
\* interleave at their awaits
NextCreate ==
  \/ \E r \in Slots, key \in Tenants, url \in Tenants, b \in DOMAIN Bodies :
       /\ Len(orders) + CreatesInFlight < MaxOrders
       /\ ReceiveCreateOrder(r, key, url, b)
  \/ \E r \in Slots : GenerateOrderNumber(r)
  \/ \E r \in Slots : SaveOrder(r)
  \/ \E r \in Slots : NotifyNewOrder(r)
  \/ \E r \in Slots : Finish(r)

SpecCreate == Init /\ [][NextCreate]_vars

\* The order lifecycle of one tenant: tenant 1 creates orders (Scenario A's
\* body) and its administrator requests status changes, the requests
\* interleaving at their awaits
NextStatus ==
  \/ \E r \in Slots :
       /\ Len(orders) + CreatesInFlight < MaxStatusOrders
       /\ ReceiveCreateOrder(r, 1, 1, 1)
  \/ \E r \in Slots : GenerateOrderNumber(r)
  \/ \E r \in Slots : SaveOrder(r)
  \/ \E r \in Slots : NotifyNewOrder(r)
  \/ \E r \in Slots, id \in 1..MaxStatusOrders, status \in Statuses :
       ReceiveUpdateOrderStatus(r, 1, id, status)
  \/ \E r \in Slots : SaveStatus(r)
  \/ \E r \in Slots : NotifyStatusChange(r)
  \/ \E r \in Slots : Finish(r)

SpecStatus == Init /\ [][NextStatus]_vars

\* no request is in flight
AllIdle == \A r \in Slots : req[r].op = "idle"

\* no order's notes have reached the bound
NotesRoom == \A i \in DOMAIN orders : Len(orders[i].notes) < MaxNotes

\* Every operation on orders, one request at a time (in slot 1): creations
\* with every body, status changes, notes and ratings, by every tenant
NextAll ==
  \/ \E key \in Tenants, url \in Tenants, b \in DOMAIN Bodies :
       /\ AllIdle /\ Len(orders) < MaxStatusOrders
       /\ ReceiveCreateOrder(1, key, url, b)
  \/ GenerateOrderNumber(1)
  \/ SaveOrder(1)
  \/ NotifyNewOrder(1)
  \/ \E t \in Tenants, id \in 1..MaxStatusOrders, status \in Statuses :
       /\ AllIdle
       /\ ReceiveUpdateOrderStatus(1, t, id, status)
  \/ SaveStatus(1)
  \/ NotifyStatusChange(1)
  \/ \E key \in Tenants, url \in Tenants,
       orderNumber \in OrderNumberInputs,
       rating \in RatingInputs, comment \in CommentInputs :
       /\ AllIdle /\ NotesRoom
       /\ ReceiveRateOrder(1, key, url, orderNumber, rating, comment)
  \/ SaveRating(1)
  \/ \E t \in Tenants, id \in 1..MaxStatusOrders, note \in CommentInputs :
       /\ AllIdle /\ NotesRoom
       /\ ReceiveAddOrderNote(1, t, id, note)
  \/ SaveNote(1)
  \/ Finish(1)

SpecAll == Init /\ [][NextAll]_vars

\* A busy day: tenant 1 has already created BusyDayOrders orders today, one
\* after the other, each with Scenario A's body
BusyDay ==
  [i \in 1..BusyDayOrders |->
     NewOrder(1, OrderPrefix(1) \o padStart(DecStr(i), 3, "0"), Bodies[1],
              Subtotal(Bodies[1].items, Len(Bodies[1].items)), Total(Bodies[1]), 1)]

InitBusyDay ==
  /\ today = 1
  /\ tenants = [t \in Tenants |-> [active |-> TRUE]]
  /\ users = [t \in Tenants |-> [active |-> TRUE]]
  /\ catalog = InitCatalog
  /\ cache = NoCache
  /\ orders = BusyDay
  /\ req = [r \in Slots |-> EmptyReq]
  /\ audit = [toggles |-> [t \in Tenants |-> 0],
              savedAt |-> [i \in 1..BusyDayOrders |-> 0]]

\* The busy day goes on: further creations, one request at a time (in slot 1)
NextBusyDay ==
  \/ \E key \in Tenants, url \in Tenants, b \in DOMAIN Bodies :
       /\ AllIdle /\ Len(orders) < BusyDayOrders + MaxBusyOrders
       /\ ReceiveCreateOrder(1, key, url, b)
  \/ GenerateOrderNumber(1)
  \/ SaveOrder(1)
  \/ NotifyNewOrder(1)
  \/ Finish(1)

SpecBusyDay == InitBusyDay /\ [][NextBusyDay]_vars

\* the status toggles of all tenants so far
RECURSIVE SumTo(_, _)
SumTo(f, n) == IF n = 0 THEN 0 ELSE f[n] + SumTo(f, n - 1)

Toggles == SumTo(audit.toggles, NumTenants)

\* Order numbering over days: creations with Scenario A's body, one request
\* at a time (in slot 1), while tenants are deactivated and reactivated and
\* days pass
NextSeq ==
  \/ \E t \in Tenants :
       /\ AllIdle /\ Len(orders) < MaxSeqOrders
       /\ ReceiveCreateOrder(1, t, t, 1)
  \/ GenerateOrderNumber(1)
  \/ SaveOrder(1)
  \/ NotifyNewOrder(1)
  \/ Finish(1)
  \/ \E t \in Tenants :
       /\ Toggles < MaxToggles
       /\ toggleTenantStatus(t)
  \/ today < MaxDay /\ Midnight

SpecSeq == Init /\ [][NextSeq]_vars

\* Notes of one tenant's orders: tenant 1 creates orders, its administrator
\* changes their status and adds notes, and customers rate them with or
\* without a comment, the requests interleaving at their awaits
NextNotes ==
  \/ \E r \in Slots :
       /\ Len(orders) + CreatesInFlight < MaxStatusOrders
       /\ ReceiveCreateOrder(r, 1, 1, 1)
  \/ \E r \in Slots : GenerateOrderNumber(r)
  \/ \E r \in Slots : SaveOrder(r)
  \/ \E r \in Slots : NotifyNewOrder(r)
  \/ \E r \in Slots, id \in 1..MaxStatusOrders, status \in Statuses :
       ReceiveUpdateOrderStatus(r, 1, id, status)
  \/ \E r \in Slots : SaveStatus(r)
  \/ \E r \in Slots : NotifyStatusChange(r)
  \/ \E r \in Slots, id \in 1..MaxStatusOrders, note \in CommentInputs :
       /\ NotesRoom
       /\ ReceiveAddOrderNote(r, 1, id, note)
  \/ \E r \in Slots : SaveNote(r)
  \/ \E r \in Slots, orderNumber \in OrderNumberInputs, comment \in CommentInputs :
       /\ NotesRoom
       /\ ReceiveRateOrder(r, 1, 1, orderNumber, Num(5), comment)
  \/ \E r \in Slots : SaveRating(r)
  \/ \E r \in Slots : Finish(r)

SpecNotes == Init /\ [][NextNotes]_vars

\* The notes log, one request at a time (in slot 1): every tenant creates
\* orders (Scenario A's body) and every tenant's administrator adds notes to
\* any order id, while days pass
NextNoteLog ==
  \/ \E t \in Tenants :
       /\ AllIdle /\ Len(orders) < MaxStatusOrders
       /\ ReceiveCreateOrder(1, t, t, 1)
  \/ GenerateOrderNumber(1)
  \/ SaveOrder(1)
  \/ NotifyNewOrder(1)
  \/ \E t \in Tenants, id \in 1..MaxStatusOrders, note \in CommentInputs :
       /\ AllIdle /\ NotesRoom
       /\ ReceiveAddOrderNote(1, t, id, note)
  \/ SaveNote(1)
  \/ Finish(1)
  \/ AllIdle /\ today < MaxDay /\ Midnight

SpecNoteLog == Init /\ [][NextNoteLog]_vars

\* Notifications with every outcome, one request at a time (in slot 1):
\* every tenant's customers create orders (Scenario A's body) and every
\* tenant's administrator changes their status; each notification finds the tenant,
\* finds it without a contact phone, does not find it or hits an error
NextNotify ==
  \/ \E t \in Tenants :
       /\ AllIdle /\ Len(orders) < MaxStatusOrders
       /\ ReceiveCreateOrder(1, t, t, 1)
  \/ GenerateOrderNumber(1)
  \/ SaveOrder(1)
  \/ \E lookup \in TenantLookups, sendLookup \in TenantLookups :
       NotifyNewOrderWith(1, lookup, sendLookup)
  \/ \E t \in Tenants, id \in 1..MaxStatusOrders, status \in Statuses :
       /\ AllIdle
       /\ ReceiveUpdateOrderStatus(1, t, id, status)
  \/ SaveStatus(1)
  \/ \E lookup \in TenantLookups, sendLookup \in TenantLookups :
       NotifyStatusChangeWith(1, lookup, sendLookup)
  \/ Finish(1)

SpecNotify == Init /\ [][NextNotify]_vars

\* Order intake, one request at a time (in slot 1): creations with every
\* body, for every tenant, while days pass
NextIntake ==
  \/ \E t \in Tenants, b \in DOMAIN Bodies :
       /\ AllIdle /\ Len(orders) < MaxOrders
       /\ ReceiveCreateOrder(1, t, t, b)
  \/ GenerateOrderNumber(1)
  \/ SaveOrder(1)
  \/ NotifyNewOrder(1)
  \/ Finish(1)
  \/ AllIdle /\ today < MaxDay /\ Midnight

SpecIntake == Init /\ [][NextIntake]_vars

\* The administrators' routes, one request at a time (in slot 1): customers
\* of every tenant create orders (Scenario A's body), and the administrator
\* of every tenant lists the orders and reads, advances and annotates any
\* order id
NextAdmin ==
  \/ \E t \in Tenants :
       /\ AllIdle /\ Len(orders) < MaxStatusOrders
       /\ ReceiveCreateOrder(1, t, t, 1)
  \/ GenerateOrderNumber(1)
  \/ SaveOrder(1)
  \/ NotifyNewOrder(1)
  \/ \E t \in Tenants, k \in DOMAIN Queries : AllIdle /\ getAllOrders(1, t, k)
  \/ \E t \in Tenants, id \in 1..MaxStatusOrders : AllIdle /\ getOrderById(1, t, id)
  \/ \E t \in Tenants, id \in 1..MaxStatusOrders, status \in Statuses :
       /\ AllIdle
       /\ ReceiveUpdateOrderStatus(1, t, id, status)
  \/ SaveStatus(1)
  \/ NotifyStatusChange(1)
  \/ \E t \in Tenants, id \in 1..MaxStatusOrders :
       /\ AllIdle /\ NotesRoom
       /\ ReceiveAddOrderNote(1, t, id, Str(<<"o", "k">>))
  \/ SaveNote(1)
  \/ Finish(1)

SpecAdmin == Init /\ [][NextAdmin]_vars

\* Stores for the statistics: what an order of the store was created from
\* (tenant, body, day) and the status it has reached; Scenario A's body
\* gives a total of 75, tenant 1's pizza (body 9) a total of 40
OrderSeeds ==
  {seed \in [t : Tenants, b : {1, 9}, status : {"pending", "completed", "cancelled"},
             day : 1..MaxDay] :
     seed.b = 9 => seed.t = 1}

\* the store that creating the seeds in turn, one request at a time, and
\* advancing the orders to their status leaves
SeededOrders(seeds) ==
  [i \in 1..Len(seeds) |->
     [NewOrder(seeds[i].t,
               OrderPrefix(seeds[i].day) \o
                 padStart(DecStr(1 + Cardinality({j \in 1..(i - 1) :
                                     seeds[j].t = seeds[i].t /\ seeds[j].day = seeds[i].day})),
                          3, "0"),
               Bodies[seeds[i].b],
               Subtotal(Bodies[seeds[i].b].items, Len(Bodies[seeds[i].b].items)),
               Total(Bodies[seeds[i].b]), seeds[i].day)
      EXCEPT !.status = seeds[i].status]]

InitStats ==
  /\ \E n \in 0..MaxOrders : \E seeds \in [1..n -> OrderSeeds] :
       /\ \A i \in 1..(n - 1) : seeds[i].day <= seeds[i + 1].day
       /\ orders = SeededOrders(seeds)
       /\ today \in (IF n = 0 THEN 1 ELSE seeds[n].day)..MaxDay
  /\ tenants = [t \in Tenants |-> [active |-> TRUE]]
  /\ users = [t \in Tenants |-> [active |-> TRUE]]
  /\ catalog = InitCatalog
  /\ cache = NoCache
  /\ req = [r \in Slots |-> EmptyReq]
  /\ audit = [toggles |-> [t \in Tenants |-> 0],
              savedAt |-> [i \in DOMAIN orders |-> 0]]

\* the days that a custom period names (0: the parameter is absent)
CustomStartDays == {0, 1}
CustomEndDays == {0, 2}

\* Statistics and sales reports over a store, one request at a time (in
\* slot 1); the reports cover the first instant of day 1 alone, where no
\* order was created, or everything up to now
NextStats ==
  \/ \E t \in Tenants, period \in Periods \ {"custom"} :
       AllIdle /\ getOrderStats(1, t, period, 0, 0)
  \/ \E t \in Tenants, startDay \in CustomStartDays, endDay \in CustomEndDays :
       AllIdle /\ getOrderStats(1, t, "custom", startDay, endDay)
  \/ \E t \in Tenants, endDate \in {StartOfDay(1), During(today)} :
       AllIdle /\ SalesReport(1, t, StartOfDay(1), endDate)
  \/ Finish(1)

SpecStats == InitStats /\ [][NextStats]_vars

\* The life of tenant 1's orders, one request at a time (in slot 1): the
\* order is created (Scenario A's body), advanced, annotated and rated
NextLife ==
  \/ /\ AllIdle /\ Len(orders) < MaxStatusOrders
     /\ ReceiveCreateOrder(1, 1, 1, 1)
  \/ GenerateOrderNumber(1)
  \/ SaveOrder(1)
  \/ NotifyNewOrder(1)
  \/ \E id \in 1..MaxStatusOrders, status \in Statuses :
       /\ AllIdle
       /\ ReceiveUpdateOrderStatus(1, 1, id, status)
  \/ SaveStatus(1)
  \/ NotifyStatusChange(1)
  \/ \E id \in 1..MaxStatusOrders :
       /\ AllIdle /\ NotesRoom
       /\ ReceiveAddOrderNote(1, 1, id, Str(<<"o", "k">>))
  \/ SaveNote(1)
  \/ \E orderNumber \in OrderNumberInputs, comment \in CommentInputs :
       /\ AllIdle /\ NotesRoom
       /\ ReceiveRateOrder(1, 1, 1, orderNumber, Num(5), comment)
  \/ SaveRating(1)
  \/ Finish(1)

SpecLife == Init /\ [][NextLife]_vars

\* The catalog of tenant 1 changes between creations, one request at a time:
\* the bodies order product 1, the pizza 2 and the unavailable product 3
CatalogBodies == {3, 9, 11}

NextCatalog ==
  \/ \E b \in CatalogBodies :
       /\ AllIdle /\ Len(orders) < MaxOrders
       /\ ReceiveCreateOrder(1, 1, 1, b)
  \/ GenerateOrderNumber(1)
  \/ SaveOrder(1)
  \/ NotifyNewOrder(1)
  \/ \E op \in {"updateProduct", "toggleProductStatus", "deleteProduct"},
        id \in {1, 2}, b \in DOMAIN ProductUpdates :
       AllIdle /\ ReceiveProductChange(1, op, 1, id, b)
  \/ SaveProduct(1)
  \/ InvalidateProducts(1)
  \/ AllIdle /\ ReceiveGetProducts(1, 1)
  \/ FindProducts(1)
  \/ CacheProducts(1)
  \/ Expire(1)
  \/ Finish(1)

SpecCatalog == Init /\ [][NextCatalog]_vars

\* Creations whose save may fail, one request in flight at a time: a request
\* is received when every other request has been answered, and the record of
\* an answered request stays in its slot until Finish
NoneInFlight == \A r \in Slots : req[r].pc \in {"idle", "done"}

NextAbort ==
  \/ \E r \in Slots, t \in Tenants :
       /\ NoneInFlight /\ Len(orders) < MaxOrders
       /\ ReceiveCreateOrder(r, t, t, 1)
  \/ \E r \in Slots :
       \/ GenerateOrderNumber(r)
       \/ SaveOrder(r)
       \/ SaveOrderFails(r)
       \/ NotifyNewOrder(r)
       \/ Finish(r)
  \/ NoneInFlight /\ today < MaxDay /\ Midnight

SpecAbort == Init /\ [][NextAbort]_vars

\* The public order routes called with the API key of tenant 1 and every
\* tenant in the URL, one request at a time (in slot 1); the administrators
\* of the tenants move the orders through their statuses
NextPublic ==
  \/ \E url \in Tenants :
       /\ AllIdle /\ Len(orders) < MaxStatusOrders
       /\ ReceiveCreateOrder(1, 1, url, 1)
  \/ GenerateOrderNumber(1)
  \/ SaveOrder(1)
  \/ NotifyNewOrder(1)
  \/ \E url \in Tenants, orderNumber \in OrderNumberInputs :
       AllIdle /\ getOrderStatus(1, 1, url, orderNumber)
  \/ \E url \in Tenants, orderNumber \in OrderNumberInputs, comment \in CommentInputs :
       AllIdle /\ NotesRoom /\ ReceiveRateOrder(1, 1, url, orderNumber, Num(5), comment)
  \/ SaveRating(1)
  \/ \E t \in Tenants, id \in 1..MaxStatusOrders, status \in Statuses :
       AllIdle /\ ReceiveUpdateOrderStatus(1, t, id, status)
  \/ SaveStatus(1)
  \/ NotifyStatusChange(1)
  \/ Finish(1)

SpecPublic == Init /\ [][NextPublic]_vars

\* Statistics of tenant 1 for the custom period from day 1 to the first
\* instant of the day after today (slot 1), while orders are created and
\* change status (slot 2)
NextStatsRace ==
  \/ ReceiveGetOrderStats(1, 1, 1, today + 1)
  \/ CountDocuments(1)
  \/ OrdersByStatus(1)
  \/ AverageTicket(1)
  \/ TotalSales(1)
  \/ \E b \in {1, 9} :
       /\ Len(orders) < MaxOrders
       /\ ReceiveCreateOrder(2, 1, 1, b)
  \/ GenerateOrderNumber(2)
  \/ SaveOrder(2)
  \/ NotifyNewOrder(2)
  \/ \E id \in 1..MaxOrders, status \in Statuses :
       ReceiveUpdateOrderStatus(2, 1, id, status)
  \/ SaveStatus(2)
  \/ NotifyStatusChange(2)
  \/ \E r \in Slots : Finish(r)

SpecStatsRace == Init /\ [][NextStatsRace]_vars

\* The product list of tenant 1 is read by overlapping getProducts requests
\* while administrators change products 1 and 2
NextCache ==
  \/ \E r \in Slots :
       \/ ReceiveGetProducts(r, 1)
       \/ FindProducts(r)
       \/ CacheProducts(r)
       \/ \E op \in {"updateProduct", "toggleProductStatus", "deleteProduct"},
             id \in {1, 2}, b \in {1, 2} :
            ReceiveProductChange(r, op, 1, id, b)
       \/ SaveProduct(r)
       \/ InvalidateProducts(r)
       \/ Finish(r)
  \/ Expire(1)

SpecCache == Init /\ [][NextCache]_vars

(***************************************************************************)
(* Claims                                                                  *)
(***************************************************************************)
\* the orders of a tenant numbered on a day
OrdersOf(t, day) ==
  {i \in DOMAIN orders :
     orders[i].tenantId = t /\ startsWith(orders[i].orderNumber, OrderPrefix(day))}

\* the sequence part of an order number, as a number
SequencePart(orderNumber) ==
  DigitsValue(SubSeq(orderNumber, Len(OrderPrefix(1)) + 1, Len(orderNumber)))

\* C1: when N createOrder requests of one tenant on one day run concurrently
\* and all succeed, the N persisted orders carry N distinct order numbers whose
\* sequence parts are exactly 1..N (no duplicates, no gaps).
C1_ConcurrentNumbersAreOneToN ==
  \A t \in Tenants :
    {SequencePart(orders[i].orderNumber) : i \in OrdersOf(t, today)}
      = 1..Cardinality(OrdersOf(t, today))

\* the lifecycle graph of the specification, as pairs <<from, to>>
LifecycleEdges ==
  {<<"pending", "confirmed">>, <<"pending", "cancelled">>,
   <<"confirmed", "preparing">>, <<"confirmed", "cancelled">>,
   <<"preparing", "delivering">>, <<"preparing", "completed">>,
   <<"preparing", "cancelled">>,
   <<"delivering", "completed">>, <<"delivering", "cancelled">>}

\* C2: in every interleaving of updateOrderStatus requests, the first
\* persisted status of an order is pending and every later change of its
\* persisted status is an edge of the lifecycle graph; once the persisted
\* status is completed or cancelled it never changes again.
C2_PersistedChangesAreLifecycleEdges ==
  [][/\ \A i \in DOMAIN orders' :
          i \notin DOMAIN orders => orders'[i].status = "pending"
     /\ \A i \in DOMAIN orders :
          orders'[i].status # orders[i].status =>
            <<orders[i].status, orders'[i].status>> \in LifecycleEdges]_vars

\* request r writes the status it asked for to the order it loaded
WritesStatus(r) ==
  /\ req[r].op = "updateOrderStatus"
  /\ ~req[r].saved
  /\ req'[r].saved

\* C3: if two updateOrderStatus requests for the same order both read the same
\* current status before either writes, at most one of them succeeds: the
\* other does not overwrite the status written by the first.
C3_NoWriteFromStaleRead ==
  [][\A r \in Slots : \A q \in Slots \ {r} :
       ~(/\ WritesStatus(r)
         /\ req[q].op = "updateOrderStatus"
         /\ req[q].saved
         /\ req[q].docId = req[r].docId
         /\ req[q].docStatus = req[r].docStatus
         /\ orders[req[q].docId].status = req[q].status)]_vars

\* the updateOrderStatus requests that have loaded their order
LoadedStatusRequests ==
  {r \in Slots : req[r].op = "updateOrderStatus" /\ req[r].docId # 0}

\* C4: for every pair (from, to) outside the allowed-transition table
\* (to = from and the transitions out of completed and cancelled included), an
\* updateOrderStatus request on an order whose status is `from` fails with a
\* 400 error naming both statuses, writes nothing to the order, and sends no
\* notification.
C4_InvalidTransitionRejected ==
  \A r \in LoadedStatusRequests :
    <<req[r].docStatus, req[r].status>> \notin LifecycleEdges =>
      /\ req[r].pc = "done"
      /\ req[r].res = Res(400, <<"transition", req[r].docStatus, req[r].status>>)
      /\ ~req[r].saved
      /\ req[r].notifyCalls = 0

\* a request of Scenario B has been answered: completed -> preparing
C4_Witness ==
  \E r \in LoadedStatusRequests :
    /\ req[r].docStatus = "completed" /\ req[r].status = "preparing"
    /\ req[r].pc = "done"
    /\ orders[req[r].docId].status = "completed"

\* C5: for every pair (from, to) of the allowed-transition table, an
\* updateOrderStatus request on an order whose status is `from` succeeds,
\* persists status `to`, and makes exactly one notifyStatusChange call, issued
\* after the new status has been saved.
C5_ValidTransitionSucceeds ==
  [][/\ \A r \in Slots :
          (/\ req'[r].op = "updateOrderStatus" /\ req'[r].docId # 0
           /\ <<req'[r].docStatus, req'[r].status>> \in LifecycleEdges)
          => /\ req'[r].pc \in {"save", "notifyStatusChange", "done"}
             /\ req'[r].pc = "save" => ~req'[r].saved /\ req'[r].notifyCalls = 0
             /\ req'[r].pc = "notifyStatusChange" =>
                   req'[r].saved /\ req'[r].notifyCalls = 0
             /\ req'[r].pc = "done" =>
                   /\ req'[r].res.code = 200
                   /\ req'[r].saved
                   /\ req'[r].notifyCalls = 1
     /\ \A r \in Slots :
          WritesStatus(r) => orders'[req[r].docId].status = req[r].status]_vars

\* a request has taken an order from preparing to completed and answered
C5_Witness ==
  \E r \in LoadedStatusRequests :
    /\ req[r].docStatus = "preparing" /\ req[r].status = "completed"
    /\ req[r].pc = "done"
    /\ req[r].res.code = 200
    /\ orders[req[r].docId].status = "completed"

\* the number a request body's JSON value stands for
ValueOf(v) == IF v.t = "undefined" THEN 0 ELSE ToNumber(v).n

RECURSIVE SumOptionPrices(_)
SumOptionPrices(options) ==
  IF options = <<>> THEN 0
  ELSE ValueOf(Head(options).price) + SumOptionPrices(Tail(options))

\* sum over the items of quantity * (unitPrice + sum of the option prices)
RECURSIVE ExpectedSubtotal(_)
ExpectedSubtotal(items) ==
  IF items = <<>> THEN 0
  ELSE ValueOf(Head(items).quantity)
         * (ValueOf(Head(items).unitPrice) + SumOptionPrices(Head(items).options))
       + ExpectedSubtotal(Tail(items))

\* C6: for every accepted order input, createOrder stores subtotal = sum over
\* the items of quantity * (unitPrice + sum of the item's option prices) and
\* total = subtotal + deliveryFee, deliveryFee being 0 when absent.
C6_CreateStoresComputedPrice ==
  \A r \in Slots :
    (req[r].op = "createOrder" /\ req[r].saved) =>
      LET body == Bodies[req[r].body]
          order == orders[req[r].docId]
      IN  /\ order.subtotal = ExpectedSubtotal(body.items)
          /\ order.total = order.subtotal + ValueOf(body.deliveryFee)

\* sum over the stored options of their prices
RECURSIVE StoredOptionPrices(_)
StoredOptionPrices(options) ==
  IF options = <<>> THEN 0
  ELSE Head(options).price + StoredOptionPrices(Tail(options))

\* sum over the stored items of quantity * (unitPrice + sum of option prices)
RECURSIVE StoredSubtotal(_)
StoredSubtotal(items) ==
  IF items = <<>> THEN 0
  ELSE Head(items).quantity
         * (Head(items).unitPrice + StoredOptionPrices(Head(items).options))
       + StoredSubtotal(Tail(items))

\* C7: in every reachable state, after any sequence of create, status-update,
\* note-append and rating operations, every persisted order has subtotal = sum
\* over its items of quantity * (unitPrice + sum of option prices) and total =
\* subtotal + deliveryFee; and a create request that supplies its own subtotal
\* or total never causes those client values to be stored.
C7_PersistedPricesConsistent ==
  /\ \A i \in DOMAIN orders :
       /\ orders[i].subtotal = StoredSubtotal(orders[i].items)
       /\ orders[i].total = orders[i].subtotal + orders[i].deliveryFee
  /\ \A r \in Slots :
       (/\ req[r].op = "createOrder" /\ req[r].saved
        /\ \/ Bodies[req[r].body].subtotal.t # "undefined"
           \/ Bodies[req[r].body].total.t # "undefined")
       => /\ orders[req[r].docId].subtotal = ExpectedSubtotal(Bodies[req[r].body].items)
          /\ orders[req[r].docId].total =
               orders[req[r].docId].subtotal + ValueOf(Bodies[req[r].body].deliveryFee)

\* the rating of a request is a number from 1 to 5
RatingInRange(rating) ==
  ToNumber(rating).t = "number" /\ ToNumber(rating).n \in 1..5

\* the order a rateOrder request names exists for its tenant and is completed
RateableOrder(r) ==
  \E i \in DOMAIN orders :
    /\ orders[i].tenantId = req[r].tenantId
    /\ orders[i].orderNumber = req[r].orderNumber
    /\ orders[i].status = "completed"

\* C10: a rateOrder request stores the rating if and only if the order exists
\* for the tenant, its current status is completed and the rating is in 1..5;
\* in every other case the request fails with 400 (404 for an unknown order)
\* and writes neither the rating nor the notes.
C10_RatingStoredIffCompletedAndInRange ==
  \A r \in Slots :
    (req[r].op = "rateOrder" /\ req[r].pc = "done") =>
      IF RateableOrder(r) /\ RatingInRange(req[r].rating)
      THEN /\ req[r].saved
           /\ req[r].res.code = 200
           /\ orders[req[r].docId].rating = ToNumber(req[r].rating)
      ELSE /\ ~req[r].saved
           /\ req[r].res.code \in {400, 404}

\* the sequence parts of a tenant's persisted orders of a day
SequencesOf(t, day) == {SequencePart(orders[i].orderNumber) : i \in OrdersOf(t, day)}

\* C8: for creations by one tenant on one calendar day that do not overlap in
\* time, the order saved carries a sequence exactly one greater than the
\* greatest sequence among that tenant's persisted orders of that day (1 when
\* there are none), so the numbers are unique and strictly increasing in
\* creation order, also after the sequence passes 999.
C8_SequentialNumbersIncrease ==
  [][Len(orders') > Len(orders) =>
       LET new == orders'[Len(orders')]
           prior == SequencesOf(new.tenantId, today)
           sequence == SequencePart(new.orderNumber)
       IN  /\ \A k \in prior : k < sequence
           /\ IF prior = {} THEN sequence = 1 ELSE (sequence - 1) \in prior]_vars

\* the three-digit sequence of the k-th order of a tenant and day
SequenceString(k) == padStart(DecStr(k), 3, "0")

\* C9: the order-number sequence is scoped to (tenant, date): the first order
\* a tenant creates on a date gets sequence 001 and the second 002 (the k-th
\* gets k) whatever orders other tenants or other dates already have, and
\* deactivating then reactivating the tenant does not restart that day's
\* sequence.
C9_SequenceScopedToTenantAndDate ==
  \A t \in Tenants, day \in 1..MaxDay :
    \A i \in OrdersOf(t, day) :
      orders[i].orderNumber =
        OrderPrefix(day) \o SequenceString(Cardinality({j \in OrdersOf(t, day) : j <= i}))

\* a tenant got 002 on a date after being deactivated and reactivated since
\* its 001 of that date, while another tenant and another date had orders
C9_Witness ==
  \E t \in Tenants, day \in 1..MaxDay :
    \E i \in OrdersOf(t, day), j \in OrdersOf(t, day) :
      /\ i < j
      /\ orders[i].orderNumber = OrderPrefix(day) \o <<"0", "0", "1">>
      /\ orders[j].orderNumber = OrderPrefix(day) \o <<"0", "0", "2">>
      /\ audit.savedAt[j] >= audit.savedAt[i] + 2
      /\ \E k \in 1..(j - 1) : orders[k].tenantId # t
      /\ \E k \in 1..(j - 1) :
           orders[k].tenantId = t /\ ~startsWith(orders[k].orderNumber, OrderPrefix(day))

\* request r writes notes to the order it loaded: an addOrderNote, or a
\* rateOrder that carries a comment
WritesNotes(r) ==
  /\ \/ req[r].op = "addOrderNote"
     \/ req[r].op = "rateOrder" /\ Truthy(req[r].comment)
  /\ ~req[r].saved
  /\ req'[r].saved

\* a is a prefix of b
IsPrefix(a, b) == Len(a) <= Len(b) /\ SubSeq(b, 1, Len(a)) = a

\* C11: when note-writing requests on the same order (addOrderNote, or
\* rateOrder with a comment) run concurrently and all report success, no
\* successful append is lost: every successful write adds exactly one entry
\* and the earlier notes text remains a prefix of the later text.
C11_NoNoteLost ==
  [][\A r \in Slots :
       WritesNotes(r) =>
         /\ IsPrefix(orders[req[r].docId].notes, orders'[req[r].docId].notes)
         /\ Len(orders'[req[r].docId].notes) = Len(orders[req[r].docId].notes) + 1]_vars

\* the text of an entry carries the timestamp of the day and the note
IsTimestampedEntry(entry, day, note) ==
  /\ startsWith(entry, DateStr(day))
  /\ Len(entry) > Len(note)
  /\ SubSeq(entry, Len(entry) - Len(note) + 1, Len(entry)) = note

\* C12: a non-empty addOrderNote request leaves notes equal to the previous
\* notes followed by one separate timestamped entry, so two successive
\* requests leave two entries in request order after the previous notes; an
\* addOrderNote request with an empty note is rejected with 400 and leaves
\* notes unchanged.
C12_NotesAppendInOrder ==
  [][\A r \in Slots :
       /\ (req[r].op = "addOrderNote" /\ WritesNotes(r)) =>
            LET old == orders[req[r].docId].notes
                new == orders'[req[r].docId].notes
            IN  /\ Len(new) = Len(old) + 1
                /\ IsPrefix(old, new)
                /\ IsTimestampedEntry(new[Len(new)], today, req[r].comment.s)
       /\ (req'[r].op = "addOrderNote" /\ ~Truthy(req'[r].comment)
             /\ users[req'[r].tenantId].active) =>
            /\ req'[r].pc = "done"
            /\ req'[r].res.code = 400
            /\ ~req'[r].saved
            /\ orders' = orders]_vars

\* a second note has been added on a later day than the first
C12_Witness ==
  \E i \in DOMAIN orders :
    /\ Len(orders[i].notes) = 2
    /\ startsWith(orders[i].notes[1], DateStr(1))
    /\ startsWith(orders[i].notes[2], DateStr(2))
    /\ req[1].op = "addOrderNote" /\ req[1].pc = "done"
    /\ req[1].docId = i /\ req[1].res.code = 200

\* the request in slot r ran its notification and the notification failed
NotificationFailed(r) == req[r].pc = "done" /\ req[r].notified = "failed"

\* C13: a failed notification fails nothing else: when notifyNewOrder fails,
\* the order is persisted and the creation is answered 201; when
\* notifyStatusChange fails, the new status is persisted and the request is
\* answered with success
C13_NotificationFailureIsSwallowed ==
  \A r \in Slots :
    NotificationFailed(r) =>
      /\ req[r].saved
      /\ req[r].docId \in DOMAIN orders
      /\ req[r].op = "createOrder" =>
           /\ req[r].res.code = 201
           /\ orders[req[r].docId].orderNumber = req[r].orderNumber
           /\ orders[req[r].docId].tenantId = req[r].tenantId
      /\ req[r].op = "updateOrderStatus" =>
           /\ req[r].res.code = 200
           /\ orders[req[r].docId].status = req[r].status
           /\ req[r].status # req[r].docStatus

\* an order was confirmed and the notification of the customer failed
C13_Witness ==
  /\ NotificationFailed(1)
  /\ req[1].op = "updateOrderStatus"
  /\ orders[req[1].docId].status = "confirmed"

\* the creation in slot r was refused for its content: it passed the API key
\* and the tenant of the URL and ended without a persisted order
CreateRefused(r) ==
  /\ req[r].op = "createOrder" /\ req[r].pc = "done"
  /\ req[r].res.code \notin {201, 401, 404}

\* the fields that a validation error of a creation can name
OrderFields ==
  {"customer", "customer.name", "customer.phone", "customer.address", "items",
   "items.options", "paymentMethod", "changeFor", "deliveryFee", "notes",
   "subtotal", "total"}

\* C14: a creation that is refused for its content (no items, customer name
\* or phone missing, unknown or unavailable product, invalid pizza size, bad
\* payment method or changeFor) is answered with a validation error that
\* names the offending field, and it has written nothing
C14_RefusedCreateIsValidationError ==
  \A r \in Slots :
    CreateRefused(r) =>
      /\ req[r].res.code = 400
      /\ Len(req[r].res.error) = 2
      /\ req[r].res.error[1] = "validation"
      /\ req[r].res.error[2] \in OrderFields
      /\ ~req[r].saved

\* the product that an item names is one the tenant can sell now
Sellable(cat, tenantId, productId) ==
  /\ productId \in DOMAIN cat
  /\ cat[productId].tenantId = tenantId
  /\ cat[productId].available

\* C15: every item of a persisted order that carries a productId names a
\* product of the order's tenant that is available; a creation with an item
\* whose product is missing, unavailable or another tenant's fails and
\* persists nothing
C15_OnlySellableProductsPersisted ==
  /\ \A i \in DOMAIN orders : \A k \in DOMAIN orders[i].items :
       orders[i].items[k].productId # 0 =>
         Sellable(catalog, orders[i].tenantId, orders[i].items[k].productId)
  /\ \A r \in Slots :
       (/\ req[r].op = "createOrder"
        /\ \E k \in DOMAIN Bodies[req[r].body].items :
             /\ Bodies[req[r].body].items[k].productId # 0
             /\ ~Sellable(catalog, req[r].tenantId, Bodies[req[r].body].items[k].productId))
       => /\ req[r].pc = "done"
          /\ req[r].res.code \notin {200, 201}
          /\ ~req[r].saved

\* tenant 1's pizza has been ordered and the order is persisted
C15_Witness ==
  /\ req[1].op = "createOrder" /\ req[1].pc = "done" /\ req[1].res.code = 201
  /\ orders[req[1].docId].tenantId = 1
  /\ orders[req[1].docId].items[1].productId = 2

\* the creation in slot r got past the API key and the tenant of the URL
CreateAnswered(r) ==
  /\ req[r].op = "createOrder" /\ req[r].pc = "done"
  /\ req[r].res.code \notin {401, 404}

\* C16: a cash order without changeFor is not refused for its changeFor; a
\* pix or credit-card order with changeFor is refused with a validation
\* error on changeFor and no order is persisted
C16_ChangeForOnlyWithCash ==
  \A r \in Slots :
    CreateAnswered(r) =>
      LET body == Bodies[req[r].body]
      IN  /\ (body.paymentMethod = "cash" /\ body.changeFor = Undef) =>
               /\ req[r].res # Res(400, <<"validation", "changeFor">>)
               /\ createOrderError(catalog, req[r].tenantId, body) = "" =>
                    req[r].res.code = 201 /\ req[r].saved
          /\ (body.paymentMethod \in {"pix", "credit-card"} /\ body.changeFor # Undef) =>
               /\ req[r].res = Res(400, <<"validation", "changeFor">>)
               /\ ~req[r].saved

\* a cash order without changeFor is persisted, and a credit-card order with
\* changeFor has just been refused
C16_Witness ==
  /\ CreateAnswered(1)
  /\ Bodies[req[1].body].paymentMethod = "credit-card"
  /\ Bodies[req[1].body].changeFor # Undef
  /\ \E i \in DOMAIN orders :
       orders[i].paymentMethod = "cash" /\ orders[i].changeFor = Undef

\* the administrators' operations that address one order by its id
ByIdOps == {"getOrderById", "updateOrderStatus", "addOrderNote"}

\* the request that slot r holds after the step belongs to an administrator's
\* operation and was received or advanced by the step
AdminStep(r) ==
  /\ req'[r] # req[r]
  /\ req'[r].op \in ByIdOps \cup {"getAllOrders"}
  /\ users[req'[r].tenantId].active

\* C17: no step of getOrderById, updateOrderStatus, addOrderNote or
\* getAllOrders made for a user of one tenant returns or changes an order of
\* another tenant, and a request that addresses another tenant's order by its
\* id is answered 404
C17_OtherTenantsOrdersOutOfReach ==
  [][\A r \in Slots :
       AdminStep(r) =>
         /\ \A i \in DOMAIN orders :
              orders[i].tenantId # req'[r].tenantId =>
                /\ orders'[i] = orders[i]
                /\ \A j \in DOMAIN req'[r].returned : req'[r].returned[j] # i
                /\ req'[r].docId # i
         /\ (/\ req'[r].op \in ByIdOps
             /\ req'[r].id \in DOMAIN orders
             /\ orders[req'[r].id].tenantId # req'[r].tenantId) =>
              /\ req'[r].pc = "done"
              /\ req'[r].res = Res(404, <<"order">>)
              /\ ~req'[r].saved]_vars

\* tenant 1's administrator has been refused tenant 2's order, which carries
\* a status and a note set by tenant 2's administrator
C17_Witness ==
  /\ req[1].op \in ByIdOps /\ req[1].pc = "done"
  /\ req[1].tenantId = 1
  /\ req[1].id \in DOMAIN orders
  /\ orders[req[1].id].tenantId = 2
  /\ orders[req[1].id].status = "confirmed"
  /\ Len(orders[req[1].id].notes) = 1
  /\ req[1].res.code = 404

\* the orders of the request's tenant that were created in its window
InWindow(r) ==
  {i \in DOMAIN orders :
     /\ orders[i].tenantId = req[r].tenantId
     /\ req[r].startDate <= During(orders[i].createdAt)
     /\ During(orders[i].createdAt) <= req[r].endDate}

RECURSIVE SumOfTotals(_)
SumOfTotals(ids) ==
  IF ids = {} THEN 0
  ELSE LET i == CHOOSE k \in ids : TRUE
       IN  orders[i].total + SumOfTotals(ids \ {i})

\* the request in slot r has been answered with statistics
StatsAnswered(r) ==
  req[r].op = "getOrderStats" /\ req[r].pc = "done" /\ req[r].res.code = 200

\* C18: the statistics of a tenant and a window count the tenant's orders
\* created in the closed window whatever their status, give for every status
\* among them the number and the sum of the totals of the orders with that
\* status, give as totalSales the sum of the totals of all of them, cancelled
\* ones included, and as averageTicket totalSales / totalOrders
C18_StatisticsOverWindow ==
  \A r \in Slots :
    StatsAnswered(r) =>
      LET stats == req[r].stats
          withStatus(st) == {i \in InWindow(r) : orders[i].status = st}
      IN  /\ stats.totalOrders = Cardinality(InWindow(r))
          /\ DOMAIN stats.byStatus = {orders[i].status : i \in InWindow(r)}
          /\ \A st \in DOMAIN stats.byStatus :
               /\ stats.byStatus[st].count = Cardinality(withStatus(st))
               /\ stats.byStatus[st].total = SumOfTotals(withStatus(st))
          /\ stats.totalSales = SumOfTotals(InWindow(r))
          /\ InWindow(r) # {} =>
               stats.averageTicket.num * stats.totalOrders
                 = stats.totalSales * stats.averageTicket.den

\* Scenario E: a completed order of 75 and a cancelled order of 40 give 2
\* orders, sales of 115 and an average ticket of 57.5
C18_Witness ==
  /\ StatsAnswered(1)
  /\ req[1].stats.totalOrders = 2
  /\ req[1].stats.totalSales = 115
  /\ 10 * req[1].stats.averageTicket.num = 575 * req[1].stats.averageTicket.den
  /\ DOMAIN req[1].stats.byStatus = {"completed", "cancelled"}
  /\ req[1].stats.byStatus["completed"] = [count |-> 1, total |-> 75]
  /\ req[1].stats.byStatus["cancelled"] = [count |-> 1, total |-> 40]

\* the request in slot r has been answered with a sales report
ReportAnswered(r) ==
  req[r].op = "generateSalesReport" /\ req[r].pc = "done" /\ req[r].res.code = 200

\* C19: when the tenant has no order in the window, the statistics are
\* totalOrders 0, an empty byStatus, averageTicket 0 and totalSales 0, and
\* the sales report has zeroed stats and empty series; neither is an error
C19_EmptyWindowGivesZeroes ==
  \A r \in Slots :
    /\ (req[r].op = "getOrderStats" /\ req[r].pc = "done" /\ InWindow(r) = {}) =>
         /\ req[r].res.code = 200
         /\ req[r].stats.totalOrders = 0
         /\ DOMAIN req[r].stats.byStatus = {}
         /\ req[r].stats.averageTicket = [num |-> 0, den |-> 1]
         /\ req[r].stats.totalSales = 0
    /\ (req[r].op = "generateSalesReport" /\ req[r].pc = "done" /\ InWindow(r) = {}) =>
         /\ req[r].res.code = 200
         /\ req[r].report.stats =
              [totalOrders |-> 0, totalSales |-> 0,
               averageTicket |-> [num |-> 0, den |-> 1],
               minTicket |-> 0, maxTicket |-> 0]
         /\ req[r].report.salesByDay = <<>>
         /\ req[r].report.salesByPaymentMethod = {}
         /\ req[r].report.salesByCategory = <<>>

\* statistics were asked for a window without orders of the tenant, while
\* the tenant has an order outside it and another tenant has one inside
C19_Witness ==
  /\ StatsAnswered(1)
  /\ InWindow(1) = {}
  /\ \E i \in DOMAIN orders :
       orders[i].tenantId = req[1].tenantId
  /\ \E i \in DOMAIN orders :
       /\ orders[i].tenantId # req[1].tenantId
       /\ req[1].startDate <= During(orders[i].createdAt)
       /\ During(orders[i].createdAt) <= req[1].endDate

\* C20 as the specification words it: a persisted order has changeFor set
\* if and only if its paymentMethod is cash
C20_ChangeForIffCash ==
  \A i \in DOMAIN orders :
    orders[i].changeFor # Undef <=> orders[i].paymentMethod = "cash"

\* C20, amended: a persisted order that has changeFor set has the
\* paymentMethod cash (a cash order may have no changeFor)
C20_ChangeForImpliesCash ==
  \A i \in DOMAIN orders :
    orders[i].changeFor # Undef => orders[i].paymentMethod = "cash"

\* a cash order with changeFor and a cash order without are both persisted
C20_Witness ==
  /\ \E i \in DOMAIN orders :
       orders[i].paymentMethod = "cash" /\ orders[i].changeFor = Num(100)
  /\ \E i \in DOMAIN orders :
       orders[i].paymentMethod = "cash" /\ orders[i].changeFor = Undef

\* the fields of order i that the step changes
ChangedFields(i) == {f \in DOMAIN orders[i] : orders'[i][f] # orders[i][f]}

\* the fields that an operation may change
MutableFields(op) ==
  CASE op = "updateOrderStatus" -> {"status"}
    [] op = "addOrderNote" -> {"notes"}
    [] op = "rateOrder" -> {"rating", "notes"}
    [] OTHER -> {}

\* the request in slot r writes order i in the step
Writes(r, i) == ~req[r].saved /\ req'[r].saved /\ req[r].docId = i

\* C21: no step deletes an order, and a step changes a persisted order only
\* as the save of updateOrderStatus (nothing but status), of addOrderNote
\* (nothing but notes) or of rateOrder (nothing but rating and notes); so
\* tenantId, orderNumber, customer, items, deliveryFee, subtotal and total
\* keep the values of the creation
C21_OrdersChangeOnlyByTheirOperations ==
  [][/\ Len(orders') >= Len(orders)
     /\ \A i \in DOMAIN orders :
          ChangedFields(i) # {} =>
            \E r \in Slots :
              Writes(r, i) /\ ChangedFields(i) \subseteq MutableFields(req[r].op)]_vars

\* an order has been advanced to completed, annotated and rated with a
\* comment, and still is the order that was created
C21_Witness ==
  \E i \in DOMAIN orders :
    /\ orders[i].status = "completed"
    /\ orders[i].rating = Num(5)
    /\ Len(orders[i].notes) = 2
    /\ orders[i].total = 75
    /\ orders[i].subtotal = 70

\* C22: a change of the catalog (updateProduct, toggleProductStatus,
\* deleteProduct) leaves the items, unit prices, option prices, subtotal and
\* total of every persisted order as they were, and an order that is
\* persisted holds the prices of its request, whatever the catalog holds
PriceFields(order) == <<order.items, order.subtotal, order.total>>

C22_CatalogChangesLeaveOrderPrices ==
  [][/\ catalog' # catalog =>
          /\ Len(orders') = Len(orders)
          /\ \A i \in DOMAIN orders : PriceFields(orders'[i]) = PriceFields(orders[i])
     /\ \A r \in Slots :
          req[r].op = "createOrder" /\ ~req[r].saved /\ req'[r].saved =>
            LET body == Bodies[req[r].body]
                order == orders'[Len(orders')]
            IN  /\ Len(order.items) = Len(body.items)
                /\ \A i \in DOMAIN body.items :
                     /\ order.items[i].unitPrice = CastNumber(body.items[i].unitPrice).n
                     /\ \A j \in DOMAIN body.items[i].options :
                          order.items[i].options[j].price =
                            CastNumber(body.items[i].options[j].price).n
                /\ order.subtotal = req[r].subtotal.n
                /\ order.total = req[r].total.n]_vars

\* an order of product 1 at 12 whose product now costs 99, and an order of
\* the pizza at 40 whose product is deleted
C22_Witness ==
  /\ 1 \in DOMAIN catalog /\ catalog[1].price = 99
  /\ 2 \notin DOMAIN catalog
  /\ \E i \in DOMAIN orders :
       /\ orders[i].items[Len(orders[i].items)].productId = 1
       /\ orders[i].items[Len(orders[i].items)].unitPrice = 12
       /\ orders[i].total = 82
  /\ \E i \in DOMAIN orders :
       /\ orders[i].items[1].productId = 2
       /\ orders[i].items[1].unitPrice = 40
       /\ orders[i].total = 40

\* C23: the order number that generateOrderNumber handed to a creation whose
\* save failed is consumed: no order of that tenant is ever stored under it
FailedAfterAllocation(r) ==
  /\ req[r].op = "createOrder" /\ req[r].pc = "done"
  /\ ~req[r].saved /\ req[r].orderNumber # <<>>

C23_AllocatedNumberNeverReused ==
  \A r \in Slots :
    FailedAfterAllocation(r) =>
      \A i \in DOMAIN orders :
        orders[i].tenantId = req[r].tenantId =>
          orders[i].orderNumber # req[r].orderNumber

\* C24: every persisted order has non-negative unit prices, option prices,
\* delivery fee, subtotal and total, and quantities of at least 1
C24_PersistedAmountsNonNegative ==
  \A i \in DOMAIN orders :
    /\ orders[i].deliveryFee >= 0
    /\ orders[i].subtotal >= 0
    /\ orders[i].total >= 0
    /\ \A k \in DOMAIN orders[i].items :
         /\ orders[i].items[k].quantity >= 1
         /\ orders[i].items[k].unitPrice >= 0
         /\ \A j \in DOMAIN orders[i].items[k].options :
              orders[i].items[k].options[j].price >= 0

\* C25: a creation validates, prices, allocates its number, persists and
\* notifies in this order: a request holds a number only if its body passed
\* the validation and is priced, is saved only under an allocated number,
\* has called notifyNewOrder (once) only if it is saved, and a creation that
\* failed has not called it
C25_CreateStepsInOrder ==
  \A r \in Slots :
    req[r].op = "createOrder" =>
      LET body == Bodies[req[r].body]
      IN  /\ req[r].orderNumber # <<>> =>
                /\ JoiOrder(body)
                /\ createOrderError(catalog, req[r].tenantId, body) = ""
                /\ req[r].subtotal = Subtotal(body.items, Len(body.items))
                /\ req[r].total = Total(body)
          /\ req[r].saved =>
                /\ req[r].orderNumber # <<>>
                /\ orders[req[r].docId].orderNumber = req[r].orderNumber
          /\ req[r].notifyCalls <= 1
          /\ req[r].notifyCalls = 1 => req[r].saved
          /\ req[r].pc = "done" /\ req[r].res.code # 201 =>
                req[r].notifyCalls = 0 /\ ~req[r].saved
          /\ req[r].pc = "done" /\ req[r].res.code = 201 =>
                req[r].notifyCalls = 1

C25_Witness ==
  \E r \in Slots :
    /\ req[r].op = "createOrder" /\ req[r].pc = "done"
    /\ req[r].res.code = 201 /\ req[r].saved /\ req[r].notifyCalls = 1
    /\ req[r].body = 9
    /\ Len(orders) = 2

\* C26: no persisted order has an item of a pizza product with a size-like
\* option (its name contains "tamanho", "tam" or "size") that names a size
\* the product is not configured with
C26_PersistedPizzaSizesConfigured ==
  \A i \in DOMAIN orders :
    \A k \in DOMAIN orders[i].items :
      LET item == orders[i].items[k]
      IN  item.productId \in DOMAIN catalog
            /\ catalog[item.productId].productType = "pizza" =>
          \A j \in DOMAIN item.options :
            IsSizeName(item.options[j].name) =>
              SizeExists(catalog[item.productId], item.options[j].name)

\* C27: with the API key of tenant 1 the public order routes create, read
\* and rate only orders of tenant 1, whatever tenant the URL names
C27_ApiKeyReachesOnlyItsTenant ==
  /\ \A i \in DOMAIN orders : orders[i].tenantId = 1
  /\ \A r \in Slots :
       req[r].op \in {"createOrder", "getOrderStatus", "rateOrder"}
         /\ req[r].docId # 0 =>
       orders[req[r].docId].tenantId = 1

\* C28: every statistics response is consistent in itself: totalOrders is
\* the sum of the counts of byStatus, totalSales the sum of its totals, and
\* averageTicket times totalOrders is totalSales
RECURSIVE SumByStatus(_, _, _)
SumByStatus(byStatus, statuses, counts) ==
  IF statuses = {} THEN 0
  ELSE LET st == CHOOSE s \in statuses : TRUE
       IN  (IF counts THEN byStatus[st].count ELSE byStatus[st].total)
             + SumByStatus(byStatus, statuses \ {st}, counts)

C28_StatisticsConsistent ==
  \A r \in Slots :
    StatsAnswered(r) =>
      LET stats == req[r].stats
      IN  /\ stats.totalOrders = SumByStatus(stats.byStatus, DOMAIN stats.byStatus, TRUE)
          /\ stats.totalSales = SumByStatus(stats.byStatus, DOMAIN stats.byStatus, FALSE)
          /\ stats.averageTicket.num * stats.totalOrders
               = stats.totalSales * stats.averageTicket.den

\* C29: with one request at a time no order returns to a status it held
\* before, an order undergoes at most 4 successful transitions (every order
\* starts as pending, and every change of status lowers the number of
\* transitions that are left: 4 from pending, 3 from confirmed, 2 from
\* preparing, 1 from delivering, none from completed and cancelled), and a
\* request to cancel an order that is pending, confirmed, preparing or
\* delivering is accepted and carried out
StatusOf(i) == IF i \in DOMAIN orders THEN orders[i].status ELSE "none"

TransitionsLeft(status) ==
  CASE status = "pending" -> 4
    [] status = "confirmed" -> 3
    [] status = "preparing" -> 2
    [] status = "delivering" -> 1
    [] OTHER -> 0

NonTerminal == {"pending", "confirmed", "preparing", "delivering"}

C29_LifecycleStep ==
  /\ \A i \in DOMAIN orders' :
       IF i \in DOMAIN orders
       THEN orders'[i].status # orders[i].status =>
              TransitionsLeft(orders'[i].status) < TransitionsLeft(orders[i].status)
       ELSE orders'[i].status = "pending"
  /\ \A r \in Slots :
       /\ req[r].op = "idle" /\ req'[r].op = "updateOrderStatus"
            /\ req'[r].status = "cancelled" /\ req'[r].docId # 0
            /\ req'[r].docStatus \in NonTerminal
          => req'[r].pc = "save"
       /\ req[r].op = "updateOrderStatus" /\ req[r].pc = "save" /\ req'[r].pc # "save"
          => req'[r].saved /\ orders'[req[r].docId].status = req[r].status

C29_LifecycleAcyclic ==
  /\ [][C29_LifecycleStep]_vars
  /\ \A i \in 1..MaxStatusOrders : \A status \in Statuses :
       [](StatusOf(i) = status =>
            [](StatusOf(i) # status => [](StatusOf(i) # status)))

\* an order cancelled on its way: its fourth transition, from delivering
C29_Witness ==
  /\ \E i \in DOMAIN orders : orders[i].status = "cancelled"
  /\ req[1].op = "updateOrderStatus" /\ req[1].pc = "done"
  /\ req[1].status = "cancelled" /\ req[1].docStatus = "delivering"
  /\ req[1].saved /\ req[1].res.code = 200

\* C30: when every change of the catalog has returned, a getProducts request
\* that is received then is answered only with products that are available
ChangeInFlight ==
  \E r \in Slots :
    /\ req[r].op \in {"updateProduct", "toggleProductStatus", "deleteProduct"}
    /\ req[r].pc # "done"

C30_LaterGetProductsSeesTheChange ==
  [][\A r \in Slots :
       /\ ~ChangeInFlight
       /\ req[r].op = "idle" /\ req'[r].op = "getProducts"
       /\ req'[r].pc = "done" /\ req'[r].res.code = 200
       => \A k \in DOMAIN req'[r].returned :
            /\ req'[r].returned[k] \in DOMAIN catalog
            /\ catalog[req'[r].returned[k]].available]_vars

====
